---- MODULE Spec2Model ----
(***************************************************************************)
(* A model of the cell / manager / link subsystem of cortex:               *)
(* cortex/__init__.py (get_manager, resolve_class, Link, Manager) and      *)
(* cortex/models/cell.py (Cell), with the cell classes of                  *)
(* cortex/models/rnn/rnn.py and cortex/models/mlp/cnn2d.py.                *)
(*                                                                         *)
(* Representation.                                                         *)
(*  - A dotted name 'a.b.c' is the sequence <<"a","b","c">>, so that       *)
(*    split('.') and '.'.join are sequence operations.                     *)
(*  - A Python value is a one-field record: [none |-> TRUE] is None,       *)
(*    [int |-> n] an integer, [str |-> s] a string, [list |-> n] a list    *)
(*    of n elements (only its length is read by the modelled code),        *)
(*    [link |-> i] the Link object stored at manager.links[i].             *)
(*  - A dict is a function on its keys; an OrderedDict is a record         *)
(*    [keys |-> sequence of keys, map |-> function on those keys].         *)
(*  - A shared parameter handle (theano.shared) is [tp |-> id]; two        *)
(*    handles are the same object iff their ids are equal.                 *)
(*  - An operation that raises leaves the mutations it made before the     *)
(*    raise; every operation returns [m |-> manager, err |-> outcome].     *)
(***************************************************************************)
EXTENDS Integers, Sequences, FiniteSets, TLC

VARIABLES
    instance,         \* Manager._instance: identity of the singleton
    cells,            \* Manager.cells       (OrderedDict name -> Cell)
    cell_args,        \* Manager.cell_args   (OrderedDict name -> dict)
    links,            \* Manager.links       (list of Link)
    tparams,          \* Manager.tparams     (dict fq-name -> handle)
    datasets,         \* Manager.datasets    (dict name -> metadata)
    classes,          \* Manager.classes     (registered cell-class tags)
    dataset_classes,  \* Manager.dataset_classes
    RNN_components,   \* RNN._components    (class attribute: the templates)
    last              \* the last call made on the manager and its outcome

vars == <<instance, cells, cell_args, links, tparams, datasets, classes,
          dataset_classes, RNN_components, last>>

-----------------------------------------------------------------------------
(* Bounds of the model.                                                    *)

MaxLinks == 2         \* add_link is not called once len(links) reaches this
MaxInstances == 2     \* Manager() is constructed at most this many times
MaxQueries == 2       \* Link.query is called at most this many times in a row
MaxPassed == 4        \* RNN is not constructed once a '_passed' list is longer than this

-----------------------------------------------------------------------------
(* Python values.                                                          *)

None == [none |-> TRUE]
IntV(n) == [int |-> n]
StrV(s) == [str |-> s]
ListV(n) == [list |-> n]
LinkV(i) == [link |-> i]

IsLink(v) == DOMAIN v = {"link"}
IsNone(v) == v = None

\* dict.get(k, None)
DictGet(d, k) == IF k \in DOMAIN d THEN d[k] ELSE None

\* d[k] = v
DictSet(d, k, v) == [x \in DOMAIN d \cup {k} |-> IF x = k THEN v ELSE d[x]]

\* d restricted to the keys in S
DictOnly(d, S) == [x \in DOMAIN d \cap S |-> d[x]]

\* a.update(b)
DictUpdate(a, b) == [x \in DOMAIN a \cup DOMAIN b |-> IF x \in DOMAIN b THEN b[x] ELSE a[x]]

EmptyDict == [x \in {} |-> None]

\* Some enumeration of a finite set, as dict iteration gives one.
RECURSIVE SetToSeq(_)
SetToSeq(S) == IF S = {} THEN <<>>
               ELSE LET x == CHOOSE y \in S : TRUE
                    IN <<x>> \o SetToSeq(S \ {x})

Range(s) == {s[i] : i \in 1..Len(s)}

-----------------------------------------------------------------------------
(* collections.OrderedDict                                                 *)

EmptyOD == [keys |-> <<>>, map |-> EmptyDict]
ODHas(od, k) == k \in DOMAIN od.map
\* od[k] = v : a new key goes last, an existing key keeps its place
ODSet(od, k, v) ==
    [keys |-> IF ODHas(od, k) THEN od.keys ELSE Append(od.keys, k),
     map  |-> DictSet(od.map, k, v)]
\* del od[k]
ODDel(od, k) ==
    [keys |-> SelectSeq(od.keys, LAMBDA x : x # k),
     map  |-> [x \in DOMAIN od.map \ {k} |-> od.map[x]]]

-----------------------------------------------------------------------------
(* Outcomes.  The name after the colon is the error kind of the            *)
(* specification's taxonomy where it has one.                              *)

Ok == "ok"
ErrUnknownCellType   == "KeyError:Unknown-Cell-Type"
ErrCellArgsNotFound  == "KeyError:Cell-Args-Not-Found"
ErrUnknownArgument   == "KeyError:Unknown-Argument"
ErrArgumentMismatch  == "ValueError:Argument-Mismatch"
ErrReferenceNotFound == "KeyError:Reference-Not-Found"
ErrNoCellType        == "KeyError:cell_type"
ErrInvalidLink       == "ValueError:Invalid-Link"
ErrUnresolvableLink  == "TypeError:Unresolvable-Link"
ErrDatasetField      == "KeyError:dataset-field"
ErrNoPort            == "KeyError:port-not-in-_dim_map"
ErrNodeKey           == "TypeError:Class-has-no-key"
ErrNoDistribution    == "AttributeError:_distribution"
ErrMissingKeyArg     == "TypeError:set_link_distribution-takes-key"
ErrUnexpectedKeyword == "TypeError:unexpected-keyword-argument"
ErrMissingRequired   == "TypeError:Missing-Required-Argument"
ErrFilterLengths     == "TypeError:filter_shapes-n_filters-length"
ErrInitParamsKwargs  == "TypeError:init_params-unexpected-keyword"
ErrCtorKwargs        == "TypeError:constructor-unexpected-keyword"
ErrClassNotRegistered == "StopIteration:get_args"
ErrNotACell          == "TypeError:Type-Mismatch"
ErrNoSuchCell        == "KeyError:no-such-cell"
ErrComponentNotFound == "KeyError:Component-Not-Found"
ErrParamAttribute    == "KeyError:param-key-not-an-attribute"
ErrInitialization    == "TypeError:initialization"
ErrLinkNotReady      == "ValueError:Link-Not-Ready"
ErrUnsupportedKey    == "KeyError:Unsupported-Key"
ErrNoNode            == "KeyError:Link-does-not-have-node"
ErrDuplicateKeyword  == "TypeError:multiple-values-for-keyword"
ErrNoMatchDims       == "AttributeError:match_dims"
ErrMissingKwarg      == "KeyError:missing-keyword"

Res(m, e) == [m |-> m, err |-> e]

-----------------------------------------------------------------------------
(* Cell class metadata (class attributes).  A class attribute that the     *)
(* class does not define is inherited from Cell.                           *)

CellOptions == ("weight_noise" :> IntV(0))

\* Cell: no attribute _distribution is defined on the base class.
MetaCell ==
    [required |-> <<>>, options |-> CellOptions, args |-> <<"name">>,
     dim_map |-> EmptyDict, weights |-> {},
     has_distribution |-> FALSE, distribution |-> None]

MetaRecurrentUnit ==
    [required |-> <<"dim_h">>, options |-> ("weight_noise" :> IntV(0)),
     args |-> <<"dim_h">>,
     dim_map |-> ("input" :> "dim_h") @@ ("output" :> "dim_h"),
     weights |-> {"W"},
     has_distribution |-> FALSE, distribution |-> None]

MetaRNNInitializer ==
    [required |-> <<"dim_in", "dim_out">>, options |-> CellOptions,
     args |-> <<"name">>,
     dim_map |-> ("input" :> "dim_in") @@ ("output" :> "dim_out"),
     weights |-> {},
     has_distribution |-> FALSE, distribution |-> None]

MetaCNN2D ==
    [required |-> <<"input_shape", "n_filters", "filter_shapes", "pool_sizes">>,
     options |-> ("dropout" :> IntV(0)) @@ ("weight_noise" :> IntV(0))
                 @@ ("batch_normalization" :> IntV(0)),
     args |-> <<"input_shape", "n_filters", "filter_shapes", "pool_sizes">>,
     dim_map |-> EmptyDict, weights |-> {},
     has_distribution |-> FALSE, distribution |-> None]

\* MLP (cortex/models/mlp/__init__.py): a layered perceptron with the ports
\* input and output; it declares a null distribution requirement.
MetaMLP ==
    [required |-> <<"dim_in", "dim_out">>,
     options |-> ("dropout" :> IntV(0)) @@ ("weight_noise" :> IntV(0))
                 @@ ("batch_normalization" :> IntV(0)),
     args |-> <<"dim_in", "dim_out">>,
     dim_map |-> ("input" :> "dim_in") @@ ("output" :> "dim_out"),
     weights |-> {"weights"},
     has_distribution |-> TRUE, distribution |-> None]

AllClasses == {"Cell", "RecurrentUnit", "RNNInitializer", "CNN2D", "MLP"}

ClassMeta(tag) ==
    CASE tag = "Cell"           -> MetaCell
      [] tag = "RecurrentUnit"  -> MetaRecurrentUnit
      [] tag = "RNNInitializer" -> MetaRNNInitializer
      [] tag = "CNN2D"          -> MetaCNN2D
      [] tag = "MLP"            -> MetaMLP

\* RNN._components as the class statement writes it: a sequence of
\* [key, v] in the iteration order of the dict, v = [args, passed, required]
RNNDeclared ==
    << [key |-> "initializer",
        v |-> [args |-> "cell_type" :> [str |-> "RNNInitializer"],
               passed |-> <<"initialization">>,
               required |-> <<>>]],
       [key |-> "RU",
        v |-> [args |-> "cell_type" :> [str |-> "&recurrence_type"],
               passed |-> <<"weight_noise", "dim_h">>,
               required |-> <<>>]],
       [key |-> "input_net",
        v |-> [args |-> "cell_type" :> [str |-> "MLP"],
               passed |-> <<"dim_in">>,
               required |-> "out_act" :> [str |-> "identity"]]] >>

\* RNN._links
RNNLinks ==
    << <<"input_net.output", "RU.input">>, <<"initializer.output", "RU.input">>,
       <<"initializer.input", "input_net.input">> >>

-----------------------------------------------------------------------------
(* resolve_class                                                           *)

ResolvableClass(m, cell_type) == cell_type \in m.classes

-----------------------------------------------------------------------------
(* Manager.match_args                                                      *)

\* The loop over kwargs.iteritems(); ks is the iteration order.
RECURSIVE MatchLoop(_, _, _, _)
MatchLoop(args, kwargs, ks, fail_on_mismatch) ==
    IF ks = <<>> THEN [args |-> args, err |-> Ok]
    ELSE LET k == Head(ks)
             v == kwargs[k]
         IN IF k \notin DOMAIN args /\ fail_on_mismatch
            THEN [args |-> args, err |-> ErrUnknownArgument]
            ELSE LET args1 == IF k \notin DOMAIN args THEN DictSet(args, k, v) ELSE args
                 IN IF args1[k] # None /\ args1[k] # v
                    THEN [args |-> args1, err |-> ErrArgumentMismatch]
                    ELSE MatchLoop(args1, kwargs, Tail(ks), fail_on_mismatch)

\* A match_args that keeps the existing record instead of replacing it.
match_args_keep(m, cell_name, kwargs) ==
    LET fail_on_mismatch == ODHas(m.cells, cell_name)
    IN IF fail_on_mismatch /\ ~ODHas(m.cell_args, cell_name)
       THEN Res(m, ErrCellArgsNotFound)
       ELSE LET old == IF ODHas(m.cell_args, cell_name)
                       THEN m.cell_args.map[cell_name] ELSE EmptyDict
                Store(r) == Res([m EXCEPT !.cell_args = ODSet(@, cell_name, r.args)], r.err)
            IN Store(MatchLoop(old, kwargs, SetToSeq(DOMAIN kwargs), fail_on_mismatch))

match_args(m, cell_name, kwargs) ==
    LET fail_on_mismatch == ODHas(m.cells, cell_name)
    IN IF fail_on_mismatch /\ ~ODHas(m.cell_args, cell_name)
       THEN Res(m, ErrCellArgsNotFound)
       ELSE \* the else branch: self.cell_args[cell_name] = {}
            LET Store(r) == Res([m EXCEPT !.cell_args = ODSet(@, cell_name, r.args)], r.err)
            IN Store(MatchLoop(EmptyDict, kwargs, SetToSeq(DOMAIN kwargs), fail_on_mismatch))

-----------------------------------------------------------------------------
(* utils.tools._p : the dotted join of an owner name and a local name.     *)

_p(owner, local) == Append(owner, local)

NameV(n) == [name |-> n]
FloatV(s) == [float |-> s]

-----------------------------------------------------------------------------
(* Shared parameter handles.                                               *)

Handle(i) == [tp |-> i]

\* theano.shared(...): an object distinct from every handle in tparams
NewHandle(tp) ==
    Handle(CHOOSE i \in 0..Cardinality(DOMAIN tp) :
             /\ Handle(i) \notin {tp[n] : n \in DOMAIN tp}
             /\ \A j \in 0..(i-1) : Handle(j) \in {tp[n] : n \in DOMAIN tp})

-----------------------------------------------------------------------------
(* Cell.get_args                                                           *)

get_args(m, self) ==
    LET meta == ClassMeta(self.cls)
    IN DictSet([k \in Range(meta.args) |-> self.attrs[k]], "cell_type", StrV(self.cls))

-----------------------------------------------------------------------------
(* Manager.__setitem__ with a Cell (Cell.register)                         *)

\* A registration that keeps the argument record the cell was built from.
setitem_keep_args(m, key, cell) ==
    [m EXCEPT !.cells = ODSet(@, key, cell)]

setitem(m, key, cell) ==
    [m EXCEPT !.cells = ODSet(@, key, cell),
              !.cell_args = ODSet(@, key, get_args(m, cell))]

\* A cell object, as opposed to any other value handed to the registry.
IsCell(v) == "cls" \in DOMAIN v

\* A registry that stores the value before it looks at its type.
manager_setitem_stored(m, key, value) ==
    Res([m EXCEPT !.cells = ODSet(@, key, value)],
        IF IsCell(value) THEN Ok ELSE ErrNotACell)

\* A registry that keeps the cell a name is already bound to.
manager_setitem_first(m, key, value) ==
    IF ~IsCell(value) THEN Res(m, ErrNotACell)
    ELSE IF ODHas(m.cells, key) THEN Res(m, Ok)
    ELSE Res(setitem(m, key, value), Ok)

\* manager[key] = value for any value: the type check of __setitem__; the
\* warning for a key already in cells changes nothing.
manager_setitem(m, key, value) ==
    IF IsCell(value)
    THEN Res(setitem(m, key, value), Ok)
    ELSE Res(m, ErrNotACell)

-----------------------------------------------------------------------------
(* Cell.init_params of each class: the OrderedDict self.params as a        *)
(* sequence of [key, len]; len = -1 for an array, n for a list of n arrays *)
(* (the integer keys get_params adds to self.params under weight noise are *)
(* counted in the cell's field noise_keys)                                 *)

Array(k) == [key |-> k, len |-> -1]
ArrayList(k, n) == [key |-> k, len |-> n]

init_params(tag, attrs) ==
    CASE tag = "RecurrentUnit" -> <<Array("W")>>
      [] tag = "CNN2D" ->
            LET n == IF attrs["n_filters"].list <= attrs["filter_shapes"].list
                     THEN attrs["n_filters"].list ELSE attrs["filter_shapes"].list
            IN <<ArrayList("weights", n), ArrayList("biases", n)>>
      [] tag = "MLP" ->
            LET n == attrs["dim_hs"].list + 1
            IN <<ArrayList("weights", n), ArrayList("biases", n)>>
      [] OTHER -> <<>>

\* keyword arguments init_params of the class accepts
InitParamsAccepts(tag, kw) ==
    CASE tag = "RecurrentUnit" -> DOMAIN kw = {}
      [] tag = "CNN2D" -> DOMAIN kw \subseteq {"weight_scale"}
      [] OTHER -> TRUE

-----------------------------------------------------------------------------
(* The parameter count of Cell.__init__                                    *)

RECURSIVE count_params(_)
count_params(params) ==
    IF params = <<>> THEN 0
    ELSE (IF Head(params).len >= 0 THEN Head(params).len ELSE 1)
         + count_params(Tail(params))

\* A count that takes every parameter, list-valued or not, as one.
count_params_flat(params) == Len(params)

n_params_of(params) == count_params(params)

RECURSIVE count_component_params(_, _)
count_component_params(component_keys, components) ==
    IF component_keys = <<>> THEN 0
    ELSE LET c == components[Head(component_keys)]
         IN (IF c = None THEN 0 ELSE c.total_params)
            + count_component_params(Tail(component_keys), components)

n_component_params_of(component_keys, components) ==
    count_component_params(component_keys, components)

-----------------------------------------------------------------------------
(* Cell.set_tparams                                                        *)

\* the keys of param_keys, in order: k, or k[0] .. k[n-1] for a list
RECURSIVE ListKeys(_, _, _)
ListKeys(k, i, n) ==
    IF i >= n THEN <<>>
    ELSE <<k \o "[" \o ToString(i) \o "]">> \o ListKeys(k, i + 1, n)

RECURSIVE ParamKeys(_)
ParamKeys(params) ==
    IF params = <<>> THEN <<>>
    ELSE (IF Head(params).len >= 0
          THEN ListKeys(Head(params).key, 0, Head(params).len)
          ELSE <<Head(params).key>>)
         \o ParamKeys(Tail(params))

\* One parameter: always a new handle, stored over an existing one.
bind_tparam_new(tp, name) ==
    [tp |-> DictSet(tp, name, NewHandle(tp)), h |-> NewHandle(tp)]

\* One parameter: the handle under its name, created if the name is new.
bind_tparam(tp, name) ==
    IF name \notin DOMAIN tp
    THEN [tp |-> DictSet(tp, name, NewHandle(tp)), h |-> NewHandle(tp)]
    ELSE [tp |-> tp, h |-> tp[name]]

RECURSIVE bind_all(_, _, _)
bind_all(tp, cell_name, keys) ==
    IF keys = <<>> THEN [tp |-> tp, hs |-> <<>>]
    ELSE LET Rest(b) ==
                 LET Join(r) == [tp |-> r.tp, hs |-> <<b.h>> \o r.hs]
                 IN Join(bind_all(b.tp, cell_name, Tail(keys)))
         IN Rest(bind_tparam(tp, _p(cell_name, Head(keys))))

-----------------------------------------------------------------------------
(* Link                                                                    *)

Front(s) == SubSeq(s, 1, Len(s) - 1)
IsDataset(m, name) == name \in DOMAIN m.datasets

\* A get_args whose unknown owner is reported as an unresolvable link.
link_get_args_unresolvable(m, ref) ==
    IF <<ref[1]>> \in DOMAIN m.datasets
    THEN [err |-> Ok, name |-> Front(ref), key |-> ref[Len(ref)], C |-> ""]
    ELSE IF ODHas(m.cell_args, Front(ref))
    THEN LET rec == m.cell_args.map[Front(ref)]
         IN IF "cell_type" \notin DOMAIN rec
            THEN [err |-> ErrNoCellType]
            ELSE IF ~ResolvableClass(m, rec["cell_type"].str)
            THEN [err |-> ErrUnknownCellType]
            ELSE [err |-> Ok, name |-> Front(ref), key |-> ref[Len(ref)],
                  C |-> rec["cell_type"].str]
    ELSE [err |-> ErrUnresolvableLink]

\* get_args(name) of Link.__init__: [name, key, C] or an error.
\* C = "" stands for the None given to a dataset endpoint.
link_get_args(m, ref) ==
    IF <<ref[1]>> \in DOMAIN m.datasets
    THEN [err |-> Ok, name |-> Front(ref), key |-> ref[Len(ref)], C |-> ""]
    ELSE IF ODHas(m.cell_args, Front(ref))
    THEN LET rec == m.cell_args.map[Front(ref)]
         IN IF "cell_type" \notin DOMAIN rec
            THEN [err |-> ErrNoCellType]
            ELSE IF ~ResolvableClass(m, rec["cell_type"].str)
            THEN [err |-> ErrUnknownCellType]
            ELSE [err |-> Ok, name |-> Front(ref), key |-> ref[Len(ref)],
                  C |-> rec["cell_type"].str]
    ELSE [err |-> ErrReferenceNotFound]

\* Cell.set_link_value(key, **kwargs): [err, value]; ErrLinkNotReady is the
\* ValueError that Link.__init__ catches.
set_link_value(m, C, key, kwargs) ==
    IF C = "CNN2D"
    THEN \* CNN2D.set_link_value names its keywords; the record holds cell_type
         [err |-> ErrUnexpectedKeyword, value |-> None]
    ELSE IF key \in DOMAIN ClassMeta(C).dim_map
    THEN LET value == DictGet(kwargs, ClassMeta(C).dim_map[key])
         IN IF ~IsLink(value) /\ value # None
            THEN [err |-> Ok, value |-> value]
            ELSE IF IsLink(value) /\ m.links[value.link].value # None
            THEN [err |-> Ok, value |-> m.links[value.link].value]
            ELSE [err |-> ErrLinkNotReady, value |-> None]
    ELSE [err |-> ErrNoPort, value |-> None]

\* Cell.set_link_distribution(C, key, **kwargs) as Link.__init__ calls it,
\* C.set_link_distribution(**args): no positional key is given.
set_link_distribution_call(C, kwargs) ==
    IF "key" \in DOMAIN kwargs
    THEN [err |-> ErrNoPort, value |-> None]
    ELSE [err |-> ErrMissingKeyArg, value |-> None]

\* Link.Node(C, key)
link_node(C, key) ==
    IF key \notin DOMAIN ClassMeta(C).dim_map THEN [err |-> ErrNodeKey]
    ELSE IF ~ClassMeta(C).has_distribution THEN [err |-> ErrNoDistribution]
    ELSE [err |-> Ok,
          node |-> [C |-> C, link_key |-> key,
                    dim_key |-> ClassMeta(C).dim_map[key],
                    dist_key |-> ClassMeta(C).distribution]]

\* The value and distribution of a link between two cells (lines 88-105).
link_cell_values(m, f, t) ==
    LET t_args == m.cell_args.map[t.name]
        f_args == m.cell_args.map[f.name]
        Caught(r) == r.err \in {Ok, ErrLinkNotReady}
        \* a later assignment replaces an earlier one; a ValueError leaves it
        Later(r, earlier) == IF r.err = Ok THEN r.value ELSE earlier
        Tries(tv, fv, td, fd) ==
            IF ~Caught(tv) THEN [err |-> tv.err]
            ELSE IF ~Caught(fv) THEN [err |-> fv.err]
            ELSE IF ~Caught(td) THEN [err |-> td.err]
            ELSE IF ~Caught(fd) THEN [err |-> fd.err]
            ELSE [err |-> Ok, value |-> Later(fv, Later(tv, None)),
                  distribution |-> Later(fd, Later(td, None))]
    IN Tries(set_link_value(m, t.C, t.key, t_args),
             set_link_value(m, f.C, f.key, f_args),
             set_link_distribution_call(t.C, t_args),
             set_link_distribution_call(f.C, f_args))

\* The value and distribution read from the dataset endpoint (lines 84-86).
link_dataset_values(m, dataset_name, dataset_key) ==
    LET d == m.datasets[dataset_name]
    IN IF dataset_key \notin DOMAIN d.dims \/ dataset_key \notin DOMAIN d.distributions
       THEN [err |-> ErrDatasetField]
       ELSE [err |-> Ok, value |-> d.dims[dataset_key],
             distribution |-> d.distributions[dataset_key]]

\* Nodes for every endpoint, the dataset included.
link_nodes_with_dataset(f, t, dataset_name) ==
    LET DataNode(e) == [err |-> Ok,
                        node |-> [C |-> e.C, link_key |-> e.key,
                                  dim_key |-> e.key, dist_key |-> None]]
        NodeOf(e) == IF e.name # dataset_name THEN link_node(e.C, e.key)
                     ELSE DataNode(e)
        Nodes(fn, tn) ==
            IF fn.err # Ok THEN [err |-> fn.err]
            ELSE IF tn.err # Ok THEN [err |-> tn.err]
            ELSE [err |-> Ok, nodes |-> DictSet(f.name :> fn.node, t.name, tn.node)]
    IN Nodes(NodeOf(f), NodeOf(t))

\* The nodes of the link (lines 111-114): f first, then t.
link_nodes(f, t, dataset_name) ==
    LET Nodes(fn, tn) ==
            LET n1 == IF f.name # dataset_name THEN (f.name :> fn.node) ELSE EmptyDict
            IN IF fn.err # Ok THEN [err |-> fn.err]
               ELSE IF tn.err # Ok THEN [err |-> tn.err]
               ELSE [err |-> Ok,
                     nodes |-> IF t.name # dataset_name
                               THEN DictSet(n1, t.name, tn.node) ELSE n1]
    IN Nodes(IF f.name # dataset_name THEN link_node(f.C, f.key) ELSE [err |-> Ok],
             IF t.name # dataset_name THEN link_node(t.C, t.key) ELSE [err |-> Ok])

\* A Link that accepts two dataset endpoints and reads the first.
link_dataset_name_any(m, f, t) ==
    IF IsDataset(m, f.name) THEN [err |-> Ok, name |-> f.name, key |-> f.key]
    ELSE IF IsDataset(m, t.name) THEN [err |-> Ok, name |-> t.name, key |-> t.key]
    ELSE [err |-> Ok, name |-> <<>>, key |-> ""]

\* The dataset endpoint (lines 72-82); name = <<>> stands for None.
link_dataset_name(m, f, t) ==
    IF IsDataset(m, f.name)
    THEN IF IsDataset(m, t.name) THEN [err |-> ErrInvalidLink]
         ELSE [err |-> Ok, name |-> f.name, key |-> f.key]
    ELSE IF IsDataset(m, t.name) THEN [err |-> Ok, name |-> t.name, key |-> t.key]
    ELSE [err |-> Ok, name |-> <<>>, key |-> ""]

\* A Link whose cell endpoint, when it declares a dimension, replaces the
\* value read from the dataset.
Link_cell_overrides(m, fref, tref) ==
    LET WithNodes(vals, ns) ==
            IF ns.err # Ok THEN Res(m, ns.err)
            ELSE Res([m EXCEPT !.links = Append(@,
                        [name |-> <<fref, tref>>, value |-> vals.value,
                         distribution |-> vals.distribution,
                         nodes |-> ns.nodes])], Ok)
        WithValues(f, t, ds, vals) ==
            IF vals.err # Ok THEN Res(m, vals.err)
            ELSE IF vals.value = None THEN Res(m, ErrUnresolvableLink)
            ELSE WithNodes(vals, link_nodes(f, t, ds.name))
        Override(vals, v) ==
            IF vals.err = Ok /\ v.err = Ok THEN [vals EXCEPT !.value = v.value]
            ELSE vals
        CellSide(e, vals) ==
            Override(vals, set_link_value(m, e.C, e.key, m.cell_args.map[e.name]))
        WithDataset(f, t, ds) ==
            IF ds.err # Ok THEN Res(m, ds.err)
            ELSE WithValues(f, t, ds,
                    IF ds.name # <<>>
                    THEN CellSide(IF f.name = ds.name THEN t ELSE f,
                                  link_dataset_values(m, ds.name, ds.key))
                    ELSE link_cell_values(m, f, t))
        WithEnds(f, t) ==
            IF f.err # Ok THEN Res(m, f.err)
            ELSE IF t.err # Ok THEN Res(m, t.err)
            ELSE WithDataset(f, t, link_dataset_name(m, f, t))
    IN WithEnds(link_get_args(m, fref), link_get_args(m, tref))

\* Link.__init__(cm, f, t): [m, err, link]; the link is appended on success.
Link(m, fref, tref) ==
    LET WithNodes(vals, ns) ==
            IF ns.err # Ok THEN Res(m, ns.err)
            ELSE Res([m EXCEPT !.links = Append(@,
                        [name |-> <<fref, tref>>, value |-> vals.value,
                         distribution |-> vals.distribution,
                         nodes |-> ns.nodes])], Ok)
        WithValues(f, t, ds, vals) ==
            IF vals.err # Ok THEN Res(m, vals.err)
            ELSE IF vals.value = None THEN Res(m, ErrUnresolvableLink)
            ELSE WithNodes(vals, link_nodes(f, t, ds.name))
        WithDataset(f, t, ds) ==
            IF ds.err # Ok THEN Res(m, ds.err)
            ELSE WithValues(f, t, ds,
                    IF ds.name # <<>>
                    THEN link_dataset_values(m, ds.name, ds.key)
                    ELSE link_cell_values(m, f, t))
        WithEnds(f, t) ==
            IF f.err # Ok THEN Res(m, f.err)
            ELSE IF t.err # Ok THEN Res(m, t.err)
            ELSE WithDataset(f, t, link_dataset_name(m, f, t))
    IN WithEnds(link_get_args(m, fref), link_get_args(m, tref))

\* A query that answers the dimension for every key of a node.
query_dimension(link, name, key) ==
    IF name \notin DOMAIN link.nodes THEN [err |-> ErrNoNode, value |-> None]
    ELSE IF link.value = None THEN [err |-> ErrLinkNotReady, value |-> None]
    ELSE [err |-> Ok, value |-> link.value]

\* Link.query(name, key): [err, value]
query(link, name, key) ==
    IF name \notin DOMAIN link.nodes THEN [err |-> ErrNoNode, value |-> None]
    ELSE LET node == link.nodes[name]
         IN IF key = node.dim_key
            THEN \* node.C.get_link_value(self, node.link_key)
                 IF link.value = None THEN [err |-> ErrLinkNotReady, value |-> None]
                 ELSE [err |-> Ok, value |-> link.value]
            ELSE IF key = "cell_type" THEN [err |-> Ok, value |-> link.distribution]
            ELSE IF node.dist_key = None THEN [err |-> ErrNodeKey, value |-> None]
            ELSE IF key = SubSeq(node.dist_key.str, 2, Len(node.dist_key.str))
                 THEN [err |-> Ok, value |-> link.distribution]
                 ELSE [err |-> ErrUnsupportedKey, value |-> None]

-----------------------------------------------------------------------------
(* Manager.add_link                                                        *)

\* A back-fill in which the last link written wins.
back_fill_last(m, name, node, lk) ==
    IF IsDataset(m, name) THEN m
    ELSE [m EXCEPT !.cell_args =
            ODSet(@, name, DictSet(m.cell_args.map[name], node.dim_key, lk))]

\* the back-fill of one node's cell (lines 272-287)
back_fill(m, name, node, lk) ==
    IF IsDataset(m, name) THEN m
    ELSE LET rec == m.cell_args.map[name]
             rec1 == IF DictGet(rec, node.dim_key) = None
                     THEN DictSet(rec, node.dim_key, lk) ELSE rec
             dk == IF node.dist_key = None THEN ""
                   ELSE IF SubSeq(node.dist_key.str, 1, 1) = "&"
                        THEN SubSeq(node.dist_key.str, 2, Len(node.dist_key.str))
                        ELSE "cell_type"
             rec2 == IF node.dist_key # None /\ DictGet(rec1, dk) = None
                        /\ ClassMeta(node.C).distribution # None
                     THEN DictSet(rec1, dk, lk) ELSE rec1
         IN [m EXCEPT !.cell_args = ODSet(@, name, rec2)]

RECURSIVE back_fill_all(_, _, _, _)
back_fill_all(m, names, nodes, lk) ==
    IF names = <<>> THEN m
    ELSE back_fill_all(back_fill(m, Head(names), nodes[Head(names)], lk),
                       Tail(names), nodes, lk)

\* An add_link that keeps only the link it has just made.
add_link_latest(m, f, t) ==
    LET Keep(r) ==
            IF r.err # Ok THEN r
            ELSE Res([r.m EXCEPT !.links = <<r.m.links[Len(r.m.links)]>>], Ok)
    IN Keep(Link(m, f, t))

add_link(m, f, t) ==
    LET BackFill(r) ==
            IF r.err # Ok THEN r
            ELSE LET i == Len(r.m.links)
                     link == r.m.links[i]
                 IN Res(back_fill_all(r.m, SetToSeq(DOMAIN link.nodes), link.nodes,
                                      LinkV(i)), Ok)
    IN BackFill(Link(m, f, t))

-----------------------------------------------------------------------------
(* Manager.prepare_cell                                                    *)

\* A naming that puts the requestor in front only when no name is given.
prepare_cell_name_local(cell_type, requestor, name) ==
    IF name # "" THEN <<name>>
    ELSE IF requestor = <<>> THEN <<cell_type \o "_cell">>
    ELSE _p(requestor, cell_type)

\* requestor = <<>> and name = "" stand for None
prepare_cell_name(cell_type, requestor, name) ==
    IF name = "" /\ requestor = <<>> THEN <<cell_type \o "_cell">>
    ELSE IF name = "" THEN _p(requestor, cell_type)
    ELSE IF requestor # <<>> THEN _p(requestor, name)
    ELSE <<name>>

prepare_cell(m, cell_type, requestor, name, kwargs) ==
    IF ~ResolvableClass(m, cell_type) THEN Res(m, ErrUnknownCellType)
    ELSE match_args(m, prepare_cell_name(cell_type, requestor, name),
                    DictSet(kwargs, "cell_type", StrV(cell_type)))

-----------------------------------------------------------------------------
(* Cell.factory and the constructors                                       *)

\* The keyword parameters each class's __init__ names itself (besides the
\* required ones) and their defaults; everything else goes on to
\* Cell.__init__ as **kwargs.
CtorNamed(tag) ==
    CASE tag = "Cell" -> ("inits" :> None) @@ ("excludes" :> None)
      [] tag = "RecurrentUnit" -> EmptyDict
      [] tag = "RNNInitializer" -> ("initialization" :> StrV("MLP"))
      [] tag = "CNN2D" -> ("h_act" :> StrV("sigmoid")) @@ ("out_act" :> None)
      [] tag = "MLP" -> ("dim_hs" :> ListV(0)) @@ ("h_act" :> StrV("sigmoid"))
                        @@ ("out_act" :> None)

\* The attributes the subclass __init__ sets before Cell.__init__ runs.
CtorAttrs(tag, kw) ==
    LET named == DictUpdate(CtorNamed(tag), DictOnly(kw, DOMAIN CtorNamed(tag)))
        req == DictOnly(kw, Range(ClassMeta(tag).required))
    IN CASE tag = "Cell" -> EmptyDict
         [] tag = "RecurrentUnit" -> req
         [] tag = "RNNInitializer" -> DictSet(req, "initialization", named["initialization"])
         [] tag = "CNN2D" -> DictSet(DictSet(req, "n_layers", IntV(kw["n_filters"].list)),
                                     "h_act", named["h_act"])
         [] tag = "MLP" -> DictSet(req, "dim_hs", named["dim_hs"])

\* The **kwargs that reach Cell.__init__ (RNNInitializer passes none on).
CtorRest(tag, kw) ==
    IF tag = "RNNInitializer" THEN EmptyDict
    ELSE [k \in DOMAIN kw \ (Range(ClassMeta(tag).required) \cup DOMAIN CtorNamed(tag)
                             \cup {"name", "inits", "excludes"}) |-> kw[k]]

\* The component template Cell.set_components works from: a sequence of
\* [key, v]; v is None or [args, passed, required].
Components(tag, attrs) ==
    IF tag = "RNNInitializer"
    THEN IF attrs["initialization"] = None
         THEN [err |-> Ok, components |-> <<[key |-> "initializer", v |-> None]>>]
         ELSE IF attrs["initialization"] = StrV("MLP")
         THEN [err |-> Ok, components |-> <<
                 [key |-> "initializer",
                  v |-> [args |-> ("cell_type" :> StrV("MLP"))
                                  @@ ("dim_in" :> attrs["dim_in"])
                                  @@ ("dim_out" :> attrs["dim_out"])
                                  @@ ("dim_hs" :> ListV(1))
                                  @@ ("dropout" :> FloatV("0.1"))
                                  @@ ("batch_normalization" :> IntV(0)),
                         passed |-> <<"dim_h", "dim_hs", "n_layers", "h_act", "dropout">>,
                         required |-> ("out_act" :> StrV("tanh"))]]>>]
         ELSE IF attrs["initialization"] = StrV("Averager")
         THEN [err |-> Ok, components |-> <<
                 [key |-> "initializer",
                  v |-> [args |-> ("cell_type" :> StrV("Averager"))
                                  @@ ("shape" :> ListV(1)),
                         passed |-> <<>>, required |-> EmptyDict]]>>]
         ELSE [err |-> ErrInitialization]
    ELSE [err |-> Ok, components |-> <<>>]

\* A leading & refers to the owner's attribute of that name.
Deref(self_attrs, v) ==
    IF DOMAIN v = {"str"} /\ Len(v.str) > 0 /\ SubSeq(v.str, 1, 1) = "&"
    THEN self_attrs[SubSeq(v.str, 2, Len(v.str))]
    ELSE v

\* First loop of Cell.set_components (lines 303-339): prepare every
\* sub-component.  Returns [m, err, kwargs].
RECURSIVE prepare_components(_, _, _, _, _)
prepare_components(m, self_name, self_attrs, comps, kwargs) ==
    IF comps = <<>> THEN [m |-> m, err |-> Ok, kwargs |-> kwargs]
    ELSE LET k == Head(comps).key
             v == Head(comps).v
             \* kwargs.pop(key, None)
             Popped(kw) == [x \in DOMAIN kw \ {k} |-> kw[x]]
             CellType(a) == IF "cell_type" \in DOMAIN a
                            THEN Deref(self_attrs, a["cell_type"]) ELSE None
             Known(cell_type) == cell_type # None /\ ResolvableClass(m, cell_type.str)
             \* passed += C._args
             Passed(cell_type) ==
                 IF Known(cell_type) THEN v.passed \o ClassMeta(cell_type.str).args
                 ELSE v.passed
             \* args.update(**required); args.update(**passed_args); the & references
             FinalArgs(kwargs0, passed) ==
                 LET Resolve(args2) == [x \in DOMAIN args2 |-> Deref(self_attrs, args2[x])]
                 IN Resolve(DictUpdate(DictUpdate(v.args, v.required),
                                       DictOnly(kwargs0, Range(passed))))
             Prepared(r, kwargs1) ==
                 IF r.err # Ok THEN [m |-> r.m, err |-> r.err, kwargs |-> kwargs1]
                 ELSE prepare_components(r.m, self_name, self_attrs, Tail(comps), kwargs1)
             Prepare(final_args, kwargs1) ==
                 Prepared(prepare_cell(m, final_args["cell_type"].str, self_name, k,
                             [x \in DOMAIN final_args \ {"cell_type"} |-> final_args[x]]),
                          kwargs1)
             Component(kwargs0, cell_type, passed) ==
                 IF cell_type # None /\ ~Known(cell_type)
                 THEN [m |-> m, err |-> ErrUnknownCellType, kwargs |-> kwargs0]
                 ELSE IF cell_type = None
                 THEN [m |-> m, err |-> ErrCtorKwargs,
                       kwargs |-> [x \in DOMAIN kwargs0 \ Range(passed) |-> kwargs0[x]]]
                 ELSE Prepare(FinalArgs(kwargs0, passed),
                              [x \in DOMAIN kwargs0 \ Range(passed) |-> kwargs0[x]])
         IN IF v = None
            THEN prepare_components(m, self_name, self_attrs, Tail(comps), kwargs)
            ELSE Component(Popped(kwargs), CellType(v.args), Passed(CellType(v.args)))

\* passed = args.pop('_passed', []) is the list of the template itself and
\* passed += C._args (line 315) extends it in place: the class-level
\* templates after the first loop has walked comps.  The walk ends at the
\* first template whose class does not resolve; the list of aux_net is the
\* list of input_net (RNN.set_components copies the template shallowly).
RECURSIVE extend_passed(_, _, _, _)
extend_passed(m, self_attrs, comps, tpl) ==
    IF comps = <<>> THEN tpl
    ELSE IF Head(comps).v = None THEN extend_passed(m, self_attrs, Tail(comps), tpl)
    ELSE LET Walk(cell_type, owner) ==
                 IF ~ResolvableClass(m, cell_type.str) THEN tpl
                 ELSE extend_passed(m, self_attrs, Tail(comps),
                        [i \in 1..Len(tpl) |->
                            IF tpl[i].key = owner
                            THEN [tpl[i] EXCEPT !.v.passed =
                                      @ \o ClassMeta(cell_type.str).args]
                            ELSE tpl[i]])
         IN Walk(Deref(self_attrs, Head(comps).v.args["cell_type"]),
                 IF Head(comps).key = "aux_net" THEN "input_net" ELSE Head(comps).key)

\* RNN.set_components (rnn.py 244-256): the templates handed on to
\* Cell.set_components, or the KeyError of kwargs['dim_h'] / kwargs['dim_in']
RNN_components_for(tpl, recurrence_type, kwargs) ==
    LET Aux(input_net) ==
            [args |-> DictSet(DictSet(input_net.args, "dim_out",
                                      IntV(2 * kwargs["dim_h"].int)),
                              "dim_in", kwargs["dim_in"]),
             passed |-> input_net.passed \o ClassMeta("MLP").args,
             required |-> input_net.required]
        InputNet == tpl[CHOOSE i \in 1..Len(tpl) : tpl[i].key = "input_net"].v
    IN IF recurrence_type # "GRU"
       THEN [err |-> Ok, components |-> tpl \o <<[key |-> "aux_net", v |-> None]>>]
       ELSE IF ~({"dim_h", "dim_in"} \subseteq DOMAIN kwargs)
       THEN [err |-> ErrMissingKwarg, components |-> <<>>]
       ELSE [err |-> Ok,
             components |-> tpl \o <<[key |-> "aux_net", v |-> Aux(InputNet)]>>]

\* RNN(name=name, recurrence_type=recurrence_type, **kwargs) up to the end
\* of set_components: [m, err, templates].  After the first loop the loop
\* over RNN._links calls self.manager.match_dims, which Manager does not
\* define.
RNN_init(m, tpl, name, recurrence_type, kwargs) ==
    LET self_attrs == ("name" :> NameV(name))
                      @@ ("recurrence_type" :> StrV(recurrence_type))
                      @@ ("dropout" :> IntV(0))
        Prepared(r, comps) ==
            [m |-> r.m,
             err |-> IF r.err # Ok THEN r.err
                     ELSE IF RNNLinks # <<>> THEN ErrNoMatchDims ELSE Ok,
             templates |-> extend_passed(m, self_attrs, comps, tpl)]
        Handed(c) ==
            IF c.err # Ok THEN [m |-> m, err |-> c.err, templates |-> tpl]
            ELSE Prepared(prepare_components(m, name, self_attrs, c.components,
                              [k \in DOMAIN kwargs \ {"dropout"} |-> kwargs[k]]),
                          c.components)
    IN Handed(RNN_components_for(tpl, recurrence_type, kwargs))

RECURSIVE build_cell(_, _)

\* Last loop of Cell.set_components (lines 346-353): build every
\* sub-component and bind it.  Returns [m, err, components].
RECURSIVE build_components(_, _, _, _)
build_components(m, self_name, comps, bound) ==
    IF comps = <<>> THEN [m |-> m, err |-> Ok, components |-> bound]
    ELSE LET k == Head(comps).key
         IN IF Head(comps).v = None
            THEN build_components(m, self_name, Tail(comps), DictSet(bound, k, None))
            ELSE LET Bind(r) ==
                         IF r.err # Ok THEN [m |-> r.m, err |-> r.err, components |-> bound]
                         ELSE IF ~ODHas(r.m.cells, _p(self_name, k))
                         THEN [m |-> r.m, err |-> ErrNoSuchCell, components |-> bound]
                         ELSE build_components(r.m, self_name, Tail(comps),
                                 DictSet(bound, k, r.m.cells.map[_p(self_name, k)]))
                 IN Bind(build_cell(m, _p(self_name, k)))

\* Cell.set_components: [m, err, kwargs, component_keys, components]
set_components(m, tag, self_name, self_attrs, kwargs) ==
    LET Built(t, p, b) ==
            [m |-> b.m, err |-> b.err, kwargs |-> p.kwargs,
             component_keys |-> [i \in 1..Len(t.components) |-> t.components[i].key],
             components |-> b.components]
        Prepared(t, p) ==
            IF p.err # Ok THEN [m |-> p.m, err |-> p.err]
            ELSE Built(t, p, build_components(p.m, self_name, t.components, EmptyDict))
        Template(t) ==
            IF t.err # Ok THEN [m |-> m, err |-> t.err]
            ELSE Prepared(t, prepare_components(m, self_name, self_attrs,
                                                t.components, kwargs))
    IN Template(Components(tag, self_attrs))

\* C(*reqs.values(), **options): the subclass __init__ and Cell.__init__.
\* kw holds every keyword of the call, name included.
construct(m, tag, kw) ==
    IF tag = "CNN2D" /\ kw["n_filters"].list # kw["filter_shapes"].list
    THEN Res(m, ErrFilterLengths)
    ELSE
    LET meta == ClassMeta(tag)
        name == kw["name"].name
        \* set_options: the options taken from kwargs, and what is left
        Options(rest) == [k \in DOMAIN meta.options |->
                            IF k \in DOMAIN rest THEN rest[k] ELSE meta.options[k]]
        Left(rest) == [k \in DOMAIN rest \ DOMAIN meta.options |-> rest[k]]
        \* self.register(), then the counts, then set_tparams
        Finish(attrs, sc, params, n_params, n_component_params, param_keys, b) ==
            Res([setitem(sc.m, name,
                    [cls |-> tag, name |-> name, attrs |-> attrs,
                     params |-> params,
                     n_params |-> n_params,
                     n_component_params |-> n_component_params,
                     total_params |-> n_params + n_component_params,
                     param_keys |-> param_keys,
                     handles |-> b.hs,
                     component_keys |-> sc.component_keys,
                     components |-> sc.components,
                     noise_keys |-> 0])
                 EXCEPT !.tparams = b.tp], Ok)
        Params(attrs, sc, params) ==
            Finish(attrs, sc, params, n_params_of(params),
                   n_component_params_of(sc.component_keys, sc.components),
                   ParamKeys(params),
                   bind_all(sc.m.tparams, name, ParamKeys(params)))
        Components_(attrs, sc) ==
            IF sc.err # Ok THEN Res(sc.m, sc.err)
            ELSE IF ~InitParamsAccepts(tag, sc.kwargs) THEN Res(sc.m, ErrInitParamsKwargs)
            ELSE Params(attrs, sc, init_params(tag, attrs))
        Attrs(rest, attrs) ==
            Components_(attrs, set_components(m, tag, name, attrs, Left(rest)))
        Rest(rest) ==
            Attrs(rest, DictSet(DictUpdate(CtorAttrs(tag, kw), Options(rest)),
                                "name", NameV(name)))
    IN Rest(CtorRest(tag, kw))

\* A factory that asks for the required names only, null or not.
factory_accepts_null(m, tag, name, kwargs) ==
    LET meta == ClassMeta(tag)
        Call(kw) ==
            IF "name" \in DOMAIN kwargs THEN Res(m, ErrDuplicateKeyword)
            ELSE IF \E req \in Range(meta.required) : req \notin DOMAIN kw
            THEN Res(m, ErrMissingRequired)
            ELSE construct(m, tag, kw)
    IN Call(DictSet([k \in DOMAIN kwargs \ {"cell_type"} |-> kwargs[k]],
                    "name", NameV(name)))

\* A factory whose instance is registered as soon as it exists, before its
\* components and parameters are made.
factory_register_first(m, tag, name, kwargs) ==
    LET meta == ClassMeta(tag)
        Proto == [cls |-> tag, name |-> name, attrs |-> ("name" :> NameV(name)),
                  params |-> <<>>, n_params |-> 0, n_component_params |-> 0,
                  total_params |-> 0, param_keys |-> <<>>, handles |-> <<>>,
                  component_keys |-> <<>>, components |-> EmptyDict,
                  noise_keys |-> 0]
        Call(kw) ==
            IF "name" \in DOMAIN kwargs THEN Res(m, ErrDuplicateKeyword)
            ELSE IF \E req \in Range(meta.required) :
                       req \notin DOMAIN kw \/ kw[req] = None
            THEN Res(m, ErrMissingRequired)
            ELSE construct(setitem_keep_args(m, name, Proto), tag, kw)
    IN Call(DictSet([k \in DOMAIN kwargs \ {"cell_type"} |-> kwargs[k]],
                    "name", NameV(name)))

\* Cell.factory(name=name, **kwargs)
factory(m, tag, name, kwargs) ==
    LET meta == ClassMeta(tag)
        Call(kw) ==
            IF "name" \in DOMAIN kwargs THEN Res(m, ErrDuplicateKeyword)
            ELSE IF \E req \in Range(meta.required) :
                       req \notin DOMAIN kw \/ kw[req] = None
            THEN Res(m, ErrMissingRequired)
            ELSE construct(m, tag, kw)
    IN Call(DictSet([k \in DOMAIN kwargs \ {"cell_type"} |-> kwargs[k]],
                    "name", NameV(name)))

-----------------------------------------------------------------------------
(* Manager.build_cell and Manager.build                                    *)

\* A build_cell that hands the record to the factory as it stands.
resolve_links_kept(m, name, rec, ks) == [rec |-> rec, err |-> Ok]

\* lines 223-227: every Link in the record is replaced by what it answers
RECURSIVE resolve_links(_, _, _, _)
resolve_links(m, name, rec, ks) ==
    IF ks = <<>> THEN [rec |-> rec, err |-> Ok]
    ELSE LET k == Head(ks)
         IN IF IsLink(rec[k])
            THEN LET Answer(q) ==
                         IF q.err # Ok THEN [rec |-> rec, err |-> q.err]
                         ELSE resolve_links(m, name, DictSet(rec, k, q.value), Tail(ks))
                 IN Answer(query(m.links[rec[k].link], name, k))
            ELSE resolve_links(m, name, rec, Tail(ks))

build_cell(m, name) ==
    IF ~ODHas(m.cell_args, name) THEN Res(m, ErrNoSuchCell)
    ELSE LET kwargs == m.cell_args.map[name]
         IN IF "cell_type" \notin DOMAIN kwargs THEN Res(m, ErrNoCellType)
            ELSE IF ~ResolvableClass(m, kwargs["cell_type"].str)
            THEN Res(m, ErrUnknownCellType)
            ELSE LET Resolved(r, m1) ==
                         IF r.err # Ok THEN Res(m1, r.err)
                         ELSE factory(m1, kwargs["cell_type"].str, name, r.rec)
                     Store(r) ==
                         Resolved(r, [m EXCEPT !.cell_args = ODSet(@, name, r.rec)])
                 IN Store(resolve_links(m, name, kwargs, SetToSeq(DOMAIN kwargs)))

RECURSIVE build_all_again(_, _)
\* A loop that builds every name of cell_args, built or not.
build_all_again(m, i) ==
    IF i > Len(m.cell_args.keys) THEN Res(m, Ok)
    ELSE LET Next_(r) == IF r.err # Ok THEN r ELSE build_all_again(r.m, i + 1)
         IN Next_(build_cell(m, m.cell_args.keys[i]))

\* the loop of build() over cell_args.iteritems()
\* (the iterator walks the live dictionary: keys added by a build_cell are
\* reached too); i is the position of the iterator
RECURSIVE build_all(_, _)
build_all(m, i) ==
    IF i > Len(m.cell_args.keys) THEN Res(m, Ok)
    ELSE IF ~ODHas(m.cells, m.cell_args.keys[i])
         THEN LET Next_(r) == IF r.err # Ok THEN r ELSE build_all(r.m, i + 1)
              IN Next_(build_cell(m, m.cell_args.keys[i]))
         ELSE build_all(m, i + 1)

\* build(name); name = <<>> stands for None
build(m, name) ==
    IF name # <<>> /\ ~ODHas(m.cells, name)
    THEN build_cell(m, name)
    ELSE build_all(m, 1)

-----------------------------------------------------------------------------
(* Manager.reset, Manager.remove_cell                                      *)

\* A reset that also forgets the registered classes.
reset_all(m) ==
    [m EXCEPT !.links = <<>>, !.tparams = EmptyDict, !.cells = EmptyOD,
              !.cell_args = EmptyOD, !.datasets = EmptyDict, !.classes = {}]

reset(m) ==
    [m EXCEPT !.links = <<>>, !.tparams = EmptyDict, !.cells = EmptyOD,
              !.cell_args = EmptyOD, !.datasets = EmptyDict]

\* A removal that takes the cells the removed cell owns along with it.
remove_cell_owned(m, key) ==
    IF ~ODHas(m.cells, key) THEN Res(m, ErrNoSuchCell)
    ELSE LET Owned(n) == Len(n) >= Len(key) /\ SubSeq(n, 1, Len(key)) = key
             Keep(od) == [keys |-> SelectSeq(od.keys, LAMBDA n : ~Owned(n)),
                          map |-> [n \in {x \in DOMAIN od.map : ~Owned(x)} |-> od.map[n]]]
         IN Res([m EXCEPT !.cells = Keep(@), !.cell_args = Keep(@)], Ok)

remove_cell(m, key) ==
    IF ~ODHas(m.cells, key) THEN Res(m, ErrNoSuchCell)
    ELSE LET m1 == [m EXCEPT !.cells = ODDel(@, key)]
         IN IF ~ODHas(m1.cell_args, key) THEN Res(m1, ErrNoSuchCell)
            ELSE Res([m1 EXCEPT !.cell_args = ODDel(@, key)], Ok)

-----------------------------------------------------------------------------
(* Cell.get_params and Cell.select_params                                  *)

\* the handle bound for the parameter key k of cell c
HandleOf(c, k) ==
    c.handles[CHOOSE i \in 1..Len(c.param_keys) : c.param_keys[i] = k]

\* CNN2D.get_params: zip(self.weights, self.biases), flattened
RECURSIVE Interleave(_, _, _)
Interleave(c, i, n) ==
    IF i >= n THEN <<>>
    ELSE <<HandleOf(c, "weights[" \o ToString(i) \o "]"),
           HandleOf(c, "biases[" \o ToString(i) \o "]")>> \o Interleave(c, i + 1, n)

\* A list that starts from the handles in param_keys order for every class.
own_params_keys(c) == [err |-> Ok, ret |-> c.handles]

\* the list get_params starts from: [err, ret]
own_params(c) ==
    IF c.cls = "CNN2D"
    THEN [err |-> Ok, ret |-> Interleave(c, 0, c.attrs["n_layers"].int)]
    ELSE IF c.cls = "MLP"
    THEN [err |-> Ok, ret |-> c.handles]
    ELSE \* [self.__dict__[k] for k in self.param_keys]
         IF \E i \in 1..Len(c.params) : c.params[i].len >= 0
         THEN [err |-> ErrParamAttribute, ret |-> <<>>]
         ELSE [err |-> Ok, ret |-> c.handles]

RECURSIVE get_params(_)
RECURSIVE component_params(_, _)
component_params(c, ks) ==
    IF ks = <<>> THEN [err |-> Ok, ret |-> <<>>]
    ELSE LET sub == c.components[Head(ks)]
         IN IF sub = None THEN component_params(c, Tail(ks))
            ELSE LET Extend(r, rest) ==
                         IF r.err # Ok THEN r
                         ELSE IF rest.err # Ok THEN rest
                         ELSE [err |-> Ok, ret |-> r.ret \o rest.ret]
                 IN Extend(get_params(sub), component_params(c, Tail(ks)))

get_params(c) ==
    LET Extend(own, subs) ==
            IF own.err # Ok THEN own
            ELSE IF subs.err # Ok THEN subs
            ELSE [err |-> Ok, ret |-> own.ret \o subs.ret]
    IN Extend(own_params(c), component_params(c, c.component_keys))

\* params[start:end]
Slice(params, start, end) ==
    LET e == IF end > Len(params) THEN Len(params) ELSE end
    IN IF start >= e THEN <<>> ELSE SubSeq(params, start + 1, e)

RECURSIVE select_scan_declared(_, _, _, _)
\* A search that also finds the key of a component bound to None.
select_scan_declared(c, ks, key, start) ==
    IF ks = <<>> THEN [found |-> FALSE, start |-> start, end |-> 0]
    ELSE LET component == c.components[Head(ks)]
             l == IF component = None THEN 0 ELSE component.total_params
         IN IF Head(ks) = key
            THEN [found |-> TRUE, start |-> start, end |-> start + l]
            ELSE select_scan_declared(c, Tail(ks), key, start + l)

\* the search of select_params over component_keys: [found, start, end]
RECURSIVE select_scan(_, _, _, _)
select_scan(c, ks, key, start) ==
    IF ks = <<>> THEN [found |-> FALSE, start |-> start, end |-> 0]
    ELSE LET component == c.components[Head(ks)]
         IN IF component = None THEN select_scan(c, Tail(ks), key, start)
            ELSE IF Head(ks) = key
                 THEN [found |-> TRUE, start |-> start,
                       end |-> start + component.total_params]
                 ELSE select_scan(c, Tail(ks), key, start + component.total_params)

\* A component bound to a list of cells: [group |-> <<c1, ..., cn>>].
IsGroup(v) == DOMAIN v = {"group"}

\* '{comp}_{index}'.format(comp=k, index=i)
GroupKey(k, i) == k \o "_" \o ToString(i)

\* get_params of a cell whose components may be lists (lines 418-427): a
\* list contributes get_params of each element, in list order
RECURSIVE get_params_lists(_)
get_params_lists(c) ==
    LET RECURSIVE Elements(_)
        Elements(cs) == IF cs = <<>> THEN <<>>
                        ELSE get_params_lists(Head(cs)) \o Elements(Tail(cs))
        RECURSIVE Keys(_)
        Keys(ks) ==
            IF ks = <<>> THEN <<>>
            ELSE (IF c.components[Head(ks)] = None THEN <<>>
                  ELSE IF IsGroup(c.components[Head(ks)])
                  THEN Elements(c.components[Head(ks)].group)
                  ELSE get_params_lists(c.components[Head(ks)]))
                 \o Keys(Tail(ks))
    IN c.handles \o Keys(c.component_keys)

\* The search of select_params with list-valued components (lines 436-459);
\* st = [found, start, end].  The break of the inner loop (line 449) ends
\* the walk over the list only: the loop over component_keys goes on, and a
\* later component that does not match still adds to start.
RECURSIVE select_scan_lists(_, _, _, _)
select_scan_lists(c, ks, key, st) ==
    LET RECURSIVE Inner(_, _, _, _)
        Inner(k, cs, i, s) ==
            IF i >= Len(cs) THEN s
            ELSE IF GroupKey(k, i) = key
                 THEN [found |-> TRUE, start |-> s.start,
                       end |-> s.start + cs[i + 1].total_params]
                 ELSE Inner(k, cs, i + 1, [s EXCEPT !.start = @ + cs[i + 1].total_params])
    IN IF ks = <<>> THEN st
       ELSE IF c.components[Head(ks)] = None
       THEN select_scan_lists(c, Tail(ks), key, st)
       ELSE IF IsGroup(c.components[Head(ks)])
       THEN select_scan_lists(c, Tail(ks), key,
                Inner(Head(ks), c.components[Head(ks)].group, 0, st))
       ELSE IF Head(ks) = key
       THEN [found |-> TRUE, start |-> st.start,
             end |-> st.start + c.components[Head(ks)].total_params]
       ELSE select_scan_lists(c, Tail(ks), key,
                [st EXCEPT !.start = @ + c.components[Head(ks)].total_params])

\* select_params(key, *params) on such a cell; key = "" stands for None
select_params_lists(c, key, params) ==
    IF key = "" THEN [err |-> Ok, ret |-> Slice(params, 0, c.n_params)]
    ELSE LET Cut(r) ==
                 IF ~r.found THEN [err |-> ErrComponentNotFound, ret |-> <<>>]
                 ELSE [err |-> Ok, ret |-> Slice(params, r.start, r.end)]
         IN Cut(select_scan_lists(c, c.component_keys, key,
                    [found |-> FALSE, start |-> c.n_params, end |-> 0]))

\* A select_params whose own slice runs to total_params.
select_params_total(c, key, params) ==
    IF key = "" THEN [err |-> Ok, ret |-> Slice(params, 0, c.total_params)]
    ELSE LET Cut(r) ==
                 IF ~r.found THEN [err |-> ErrComponentNotFound, ret |-> <<>>]
                 ELSE [err |-> Ok, ret |-> Slice(params, r.start, r.end)]
         IN Cut(select_scan(c, c.component_keys, key, c.n_params))

\* A select_params that takes the matched component's length from the
\* owner's own count.
select_params_own_length(c, key, params) ==
    IF key = "" THEN [err |-> Ok, ret |-> Slice(params, 0, c.n_params)]
    ELSE LET Cut(r) ==
                 IF ~r.found THEN [err |-> ErrComponentNotFound, ret |-> <<>>]
                 ELSE [err |-> Ok, ret |-> Slice(params, r.start, r.start + c.n_params)]
         IN Cut(select_scan(c, c.component_keys, key, c.n_params))

\* select_params(key, *params); key = "" stands for None
select_params(c, key, params) ==
    IF key = "" THEN [err |-> Ok, ret |-> Slice(params, 0, c.n_params)]
    ELSE LET Cut(r) ==
                 IF ~r.found THEN [err |-> ErrComponentNotFound, ret |-> <<>>]
                 ELSE [err |-> Ok, ret |-> Slice(params, r.start, r.end)]
         IN Cut(select_scan(c, c.component_keys, key, c.n_params))

-----------------------------------------------------------------------------
(* The weight-noise branch of Cell.get_params (lines 402-416): the noisy   *)
(* expression is bound to the local name param and stored in self.params   *)
(* under the integer key i; the returned list keeps the handles.  The      *)
(* noise switch is as NoiseSwitch.__init__ leaves it: on.                  *)

Truthy(v) == ~(v = None \/ v = IntV(0))

noise_switch == TRUE

get_params_effect(c) ==
    LET Noise(params) ==
            IF params.err = Ok /\ noise_switch /\ Truthy(c.attrs["weight_noise"])
            THEN [c EXCEPT !.noise_keys = Len(params.ret)]
            ELSE c
    IN Noise(own_params(c))

-----------------------------------------------------------------------------
(* The inputs of the calls.                                                *)

DatasetName == "D"
DatasetDims == ("x" :> IntV(3)) @@ ("y" :> IntV(4))
DatasetDistributions == ("x" :> StrV("gaussian")) @@ ("y" :> StrV("binomial"))

List2 == ListV(2)
CNNArgs == ("input_shape" :> List2) @@ ("n_filters" :> List2)
           @@ ("filter_shapes" :> List2) @@ ("pool_sizes" :> List2)

\* the declarations prepare_cell is called with: [name, cell_type, kwargs]
Decls ==
    { [name |-> "a", cell_type |-> "RecurrentUnit", kwargs |-> EmptyDict],
      [name |-> "a", cell_type |-> "RecurrentUnit", kwargs |-> ("dim_h" :> IntV(3))],
      [name |-> "a", cell_type |-> "RecurrentUnit",
       kwargs |-> ("dim_h" :> IntV(4)) @@ ("weight_noise" :> IntV(1))],
      [name |-> "a", cell_type |-> "MLP", kwargs |-> ("dim_out" :> IntV(3))],
      [name |-> "a", cell_type |-> "MLP",
       kwargs |-> ("dim_in" :> IntV(4)) @@ ("dim_out" :> IntV(3))],
      [name |-> "a", cell_type |-> "CNN2D", kwargs |-> CNNArgs],
      [name |-> "b", cell_type |-> "RecurrentUnit", kwargs |-> EmptyDict],
      [name |-> "b", cell_type |-> "RNNInitializer",
       kwargs |-> ("dim_in" :> IntV(3)) @@ ("dim_out" :> IntV(3))],
      [name |-> "b", cell_type |-> "RNNInitializer",
       kwargs |-> ("dim_in" :> IntV(3)) @@ ("dim_out" :> IntV(3))
                  @@ ("initialization" :> None)],
      [name |-> "b", cell_type |-> "CNN2D",
       kwargs |-> [CNNArgs EXCEPT !["n_filters"] = ListV(1)]],
      [name |-> "", cell_type |-> "Cell", kwargs |-> EmptyDict],
      [name |-> "b", cell_type |-> "Averager", kwargs |-> EmptyDict] }

\* the keyword arguments match_args is called with directly
MatchKwargs ==
    { EmptyDict, ("dim_h" :> IntV(3)), ("dim_h" :> IntV(4)) }

\* the references add_link is called with
Refs == { <<DatasetName, "x">>, <<DatasetName, "y">>,
          <<"a", "input">>, <<"a", "output">>, <<"b", "input">> }

CellNames == { <<"a">>, <<"b">>, <<"b", "initializer">>, <<"Cell_cell">> }

ComponentKeys == {"", "initializer"}

-----------------------------------------------------------------------------
(* State                                                                   *)

M == [cells |-> cells, cell_args |-> cell_args, links |-> links,
      tparams |-> tparams, datasets |-> datasets, classes |-> classes]

SetM(m) ==
    /\ cells' = m.cells
    /\ cell_args' = m.cell_args
    /\ links' = m.links
    /\ tparams' = m.tparams
    /\ datasets' = m.datasets
    /\ classes' = m.classes

\* import cortex: manager = get_manager() constructs the singleton
Init ==
    /\ instance = 1
    /\ cells = EmptyOD
    /\ cell_args = EmptyOD
    /\ links = <<>>
    /\ tparams = EmptyDict
    /\ datasets = EmptyDict
    /\ classes = AllClasses
    /\ dataset_classes = {"FMRI_IID", "FMRI"}
    /\ RNN_components = RNNDeclared
    /\ last = [op |-> "import", err |-> Ok]

-----------------------------------------------------------------------------
(* Actions: one per call on the manager or on a built cell.                *)

\* get_manager()
GetManager ==
    /\ last' = [op |-> "get_manager", err |-> Ok, ret |-> instance]
    /\ UNCHANGED <<instance, cells, cell_args, links, tparams, datasets, classes,
                   dataset_classes, RNN_components>>

\* Manager(): a new instance replaces the singleton
NewManager ==
    /\ instance < MaxInstances
    /\ instance' = instance + 1
    /\ SetM(reset(M))
    /\ last' = [op |-> "Manager", err |-> Ok]
    /\ UNCHANGED <<dataset_classes, RNN_components>>

\* a dataset registers its metadata: manager.datasets[name] = {...}
RegisterDataset(name) ==
    /\ datasets' = DictSet(datasets, <<name>>,
                      [dims |-> DatasetDims, distributions |-> DatasetDistributions])
    /\ last' = [op |-> "register_dataset", err |-> Ok, name |-> <<name>>]
    /\ UNCHANGED <<instance, cells, cell_args, links, tparams, classes,
                   dataset_classes, RNN_components>>

\* reset(); last records which tables held something when it was called
Reset ==
    /\ SetM(reset(M))
    /\ last' = [op |-> "reset", err |-> Ok,
                had |-> [cells |-> cells # EmptyOD, cell_args |-> cell_args # EmptyOD,
                         links |-> links # <<>>, tparams |-> tparams # EmptyDict,
                         datasets |-> datasets # EmptyDict]]
    /\ UNCHANGED <<instance, dataset_classes, RNN_components>>

MatchArgs(name, kwargs) ==
    LET Returns(r) ==
            /\ SetM(r.m)
            /\ last' = [op |-> "match_args", err |-> r.err, name |-> <<name>>,
                        kwargs |-> kwargs]
    IN /\ Returns(match_args(M, <<name>>, kwargs))
       /\ UNCHANGED <<instance, dataset_classes, RNN_components>>

\* prepare_cell(cell_type, name=name, **kwargs); name = "" stands for None
PrepareCell(cell_type, name, kwargs) ==
    LET Returns(r) ==
            /\ SetM(r.m)
            /\ last' = [op |-> "prepare_cell", err |-> r.err,
                        name |-> prepare_cell_name(cell_type, <<>>, name),
                        kwargs |-> DictSet(kwargs, "cell_type", StrV(cell_type))]
    IN /\ Returns(prepare_cell(M, cell_type, <<>>, name, kwargs))
       /\ UNCHANGED <<instance, dataset_classes, RNN_components>>

\* prepare_cell(cell_type, requestor=requestor, name=name, **kwargs);
\* requestor is the name of the requesting cell, <<>> for None (only its
\* name is read); last keeps the arguments as they were given
PrepareCellFor(cell_type, requestor, name, kwargs) ==
    LET Returns(r) ==
            /\ SetM(r.m)
            /\ last' = [op |-> "prepare_cell", err |-> r.err,
                        name |-> prepare_cell_name(cell_type, requestor, name),
                        kwargs |-> DictSet(kwargs, "cell_type", StrV(cell_type)),
                        cell_type |-> cell_type, requestor |-> requestor,
                        given |-> name]
    IN /\ Returns(prepare_cell(M, cell_type, requestor, name, kwargs))
       /\ UNCHANGED <<instance, dataset_classes, RNN_components>>

AddLink(f, t) ==
    /\ Len(links) < MaxLinks
    /\ LET Returns(r) ==
               /\ SetM(r.m)
               /\ last' = [op |-> "add_link", err |-> r.err, f |-> f, t |-> t]
       IN Returns(add_link(M, f, t))
    /\ UNCHANGED <<instance, dataset_classes, RNN_components>>

\* the names of cell_args that are not in cells, in registration order
Pending(m) == SelectSeq(m.cell_args.keys, LAMBDA n : ~ODHas(m.cells, n))

\* build(name); name = <<>> stands for None; last records the names that
\* were pending when it was called
Build(name) ==
    LET Returns(r) ==
            /\ SetM(r.m)
            /\ last' = [op |-> "build", err |-> r.err, name |-> name,
                        pending |-> Pending(M)]
    IN /\ Returns(build(M, name))
       /\ UNCHANGED <<instance, dataset_classes, RNN_components>>

RemoveCell(name) ==
    LET Returns(r) ==
            /\ SetM(r.m)
            /\ last' = [op |-> "remove_cell", err |-> r.err, name |-> name]
    IN /\ Returns(remove_cell(M, name))
       /\ UNCHANGED <<instance, dataset_classes, RNN_components>>

\* cells[name].get_params()
GetParams(name) ==
    /\ ODHas(cells, name)
    /\ cells' = ODSet(cells, name, get_params_effect(cells.map[name]))
    /\ last' = [op |-> "get_params", err |-> get_params(cells.map[name]).err,
                name |-> name]
    /\ UNCHANGED <<instance, cell_args, links, tparams, datasets, classes,
                   dataset_classes, RNN_components>>

\* cells[name].select_params(key, *cells[name].get_params())
SelectParams(name, key) ==
    /\ ODHas(cells, name)
    /\ get_params(cells.map[name]).err = Ok
    /\ last' = [op |-> "select_params",
                err |-> select_params(cells.map[name], key,
                                      get_params(cells.map[name]).ret).err,
                name |-> name, key |-> key]
    /\ UNCHANGED <<instance, cells, cell_args, links, tparams, datasets, classes,
                   dataset_classes, RNN_components>>

\* manager[key] = value; had tells whether key was in cells before
SetItem(key, value) ==
    LET Returns(r) ==
            /\ SetM(r.m)
            /\ last' = [op |-> "setitem", err |-> r.err, name |-> key,
                        value |-> value, had |-> ODHas(cells, key)]
    IN /\ Returns(manager_setitem(M, key, value))
       /\ UNCHANGED <<instance, dataset_classes, RNN_components>>

\* cells[name].select_params(key, *cells[name].get_params()) on a cell whose
\* components may be lists; last keeps what was returned
SelectParamsLists(name, key) ==
    /\ ODHas(cells, name)
    /\ last' = [op |-> "select_params",
                err |-> select_params_lists(cells.map[name], key,
                            get_params_lists(cells.map[name])).err,
                ret |-> select_params_lists(cells.map[name], key,
                            get_params_lists(cells.map[name])).ret,
                name |-> name, key |-> key]
    /\ UNCHANGED <<instance, cells, cell_args, links, tparams, datasets, classes,
                   dataset_classes, RNN_components>>

\* owner.set_components(components=comps, **kwargs) on a cell under
\* construction (Cell._links is empty, so the second loop does nothing):
\* every template is prepared, then every sub-component is built.  last
\* keeps the templates and the keyword arguments as they were given,
\* whether the first loop went through, and cell_args as it left them.
SetComponents(self_name, comps, kwargs) ==
    LET self_attrs == "name" :> NameV(self_name)
        Returns(m, err, prepared, records) ==
            /\ SetM(m)
            /\ last' = [op |-> "set_components", err |-> err, name |-> self_name,
                        components |-> comps, kwargs |-> kwargs,
                        prepared |-> prepared, records |-> records]
        Built(b, records) == Returns(b.m, b.err, TRUE, records)
        Prepared(r) ==
            IF r.err # Ok THEN Returns(r.m, r.err, FALSE, r.m.cell_args)
            ELSE Built(build_components(r.m, self_name, comps, EmptyDict),
                       r.m.cell_args)
    IN /\ Prepared(prepare_components(M, self_name, self_attrs, comps, kwargs))
       /\ UNCHANGED <<instance, dataset_classes, RNN_components>>

\* RNN(name=name, recurrence_type=recurrence_type, **kwargs)
ConstructRNN(name, recurrence_type, kwargs) ==
    LET Returns(r) ==
            /\ SetM(r.m)
            /\ RNN_components' = r.templates
            /\ last' = [op |-> "RNN", err |-> r.err, name |-> name,
                        recurrence_type |-> recurrence_type, kwargs |-> kwargs]
    IN /\ \A i \in 1..Len(RNN_components) :
             Len(RNN_components[i].v.passed) <= MaxPassed
       /\ Returns(RNN_init(M, RNN_components, name, recurrence_type, kwargs))
       /\ UNCHANGED <<instance, dataset_classes>>

\* links[i].query(name, key); last counts the queries made in a row
Query(i, name, key) ==
    LET Returns(r, n) ==
            /\ n <= MaxQueries
            /\ last' = [op |-> "query", err |-> r.err, value |-> r.value,
                        link |-> i, name |-> name, key |-> key, n |-> n]
    IN /\ i \in 1..Len(links)
       /\ Returns(query(links[i], name, key),
                  IF last.op = "query" THEN last.n + 1 ELSE 1)
       /\ UNCHANGED <<instance, cells, cell_args, links, tparams, datasets, classes,
                      dataset_classes, RNN_components>>

-----------------------------------------------------------------------------
(* Specifications.  Each one lets the manager be driven by the calls and   *)
(* inputs of one part of the subsystem.                                    *)

\* Construction, the parameter table and the flattened parameter list.
DeclsCells ==
    { d \in Decls :
        \/ d.name = "a" /\ d.cell_type = "CNN2D"
        \/ d.name = "a" /\ d.cell_type = "RecurrentUnit" /\ "weight_noise" \in DOMAIN d.kwargs
        \/ d.name = "b" /\ d.cell_type = "RNNInitializer" }

NamesCells == { <<"a">>, <<"b">>, <<"b", "initializer">> }

NextCells ==
    \/ Reset
    \/ \E d \in DeclsCells : PrepareCell(d.cell_type, d.name, d.kwargs)
    \/ \E n \in {<<"a">>, <<>>} : Build(n)
    \/ \E n \in NamesCells : RemoveCell(n)
    \/ \E n \in NamesCells : GetParams(n)
    \/ \E n \in NamesCells, k \in ComponentKeys : SelectParams(n, k)
    \/ MatchArgs("a", "dim_h" :> IntV(4))
    \/ AddLink(<<"a", "output">>, <<"b", "input">>)

SpecCells == Init /\ [][NextCells]_vars

\* Declarations arriving from several sites, before and after the build.
DeclsArgs ==
    { d \in Decls :
        /\ d.name = "a"
        /\ \/ d.cell_type = "RecurrentUnit" /\ DOMAIN d.kwargs = {"dim_h"}
           \/ d.cell_type = "MLP" /\ DOMAIN d.kwargs = {"dim_out"} }

KwargsArgs == MatchKwargs \cup { "weight_noise" :> IntV(1) }

NextArgs ==
    \/ RegisterDataset(DatasetName)
    \/ \E d \in DeclsArgs : PrepareCell(d.cell_type, d.name, d.kwargs)
    \/ \E kw \in KwargsArgs : MatchArgs("a", kw)
    \/ AddLink(<<DatasetName, "x">>, <<"a", "input">>)
    \/ Build(<<>>)
    \/ RemoveCell(<<"a">>)

SpecArgs == Init /\ [][NextArgs]_vars

\* Links between datasets and cells, the build that resolves them, and the
\* manager's lifecycle.
DeclsManager ==
    { d \in Decls :
        \/ /\ d.name = "a" /\ d.cell_type = "RecurrentUnit"
           /\ "weight_noise" \notin DOMAIN d.kwargs
        \/ d.name = "a" /\ d.cell_type = "MLP" /\ DOMAIN d.kwargs = {"dim_out"}
        \/ d.name = "b" /\ d.cell_type = "RecurrentUnit" }

LinksManager ==
    { << <<DatasetName, "x">>, <<"a", "input">> >>,
      << <<"a", "output">>, <<"b", "input">> >>,
      << <<DatasetName, "x">>, <<DatasetName, "y">> >> }

NextManager ==
    \/ GetManager
    \/ NewManager
    \/ Reset
    \/ RegisterDataset(DatasetName)
    \/ \E d \in DeclsManager : PrepareCell(d.cell_type, d.name, d.kwargs)
    \/ \E l \in LinksManager : AddLink(l[1], l[2])
    \/ Build(<<>>)

SpecManager == Init /\ [][NextManager]_vars

\* Link.query as a function of the link it is called on.  The links are a
\* value (None before resolution, lines 45-47), a distribution and the nodes
\* Link.Node makes for the ports of one or two cells.
QueryNodes ==
    { (<<"a">> :> link_node("MLP", "input").node),
      (<<"a">> :> link_node("MLP", "output").node),
      (<<"a">> :> link_node("MLP", "output").node)
          @@ (<<"b">> :> link_node("MLP", "input").node) }

QueryLinks ==
    { [name |-> << <<"a", "output">>, <<"b", "input">> >>, value |-> v,
       distribution |-> d, nodes |-> ns] :
        v \in {None, IntV(3), IntV(4)}, d \in {None, StrV("gaussian")},
        ns \in QueryNodes }

QueryKeys == {"dim_in", "dim_out", "cell_type", "distribution_type"}

InitQuery ==
    /\ instance = 1
    /\ cells = EmptyOD
    /\ cell_args = EmptyOD
    /\ links \in { <<l>> : l \in QueryLinks }
    /\ tparams = EmptyDict
    /\ datasets = EmptyDict
    /\ classes = AllClasses
    /\ dataset_classes = {"FMRI_IID", "FMRI"}
    /\ RNN_components = RNNDeclared
    /\ last = [op |-> "import", err |-> Ok]

NextQuery ==
    \E n \in {<<"a">>, <<"b">>}, k \in QueryKeys : Query(1, n, k)

SpecQuery == InitQuery /\ [][NextQuery]_vars

\* Links from a dataset to the ports of a cell, the argument records they
\* back-fill, the queries the links answer and the build that follows.
DeclsLink ==
    { d \in Decls :
        \/ d.name = "a" /\ d.cell_type = "MLP"
        \/ d.name = "b" /\ d.cell_type = "RecurrentUnit" }

LinksLink ==
    { << <<DatasetName, "x">>, <<"a", "input">> >>,
      << <<DatasetName, "y">>, <<"a", "input">> >>,
      << <<"a", "output">>, <<DatasetName, "y">> >>,
      << <<"a", "output">>, <<"b", "input">> >> }

NextLink ==
    \/ RegisterDataset(DatasetName)
    \/ \E d \in DeclsLink : PrepareCell(d.cell_type, d.name, d.kwargs)
    \/ \E l \in LinksLink : AddLink(l[1], l[2])
    \/ \E i \in 1..MaxLinks, n \in {<<"a">>, <<"b">>}, k \in QueryKeys : Query(i, n, k)
    \/ Build(<<>>)

SpecLink == Init /\ [][NextLink]_vars

\* Builds by name and of every pending cell, with declarations whose
\* construction fails at one step or another, and removal.
DeclsBuild ==
    { d \in Decls :
        \/ d.name = "a" /\ d.cell_type = "RecurrentUnit"
        \/ d.name = "b" /\ d.cell_type = "RNNInitializer" }
    \cup
    { [name |-> "a", cell_type |-> "RecurrentUnit",
       kwargs |-> ("dim_h" :> IntV(3)) @@ ("h_act" :> StrV("tanh"))],
      [name |-> "b", cell_type |-> "RNNInitializer",
       kwargs |-> ("dim_in" :> IntV(3)) @@ ("dim_out" :> IntV(3))
                  @@ ("initialization" :> StrV("Averager"))],
      [name |-> "b", cell_type |-> "RNNInitializer",
       kwargs |-> ("dim_in" :> IntV(3))],
      [name |-> "a", cell_type |-> "RecurrentUnit", kwargs |-> ("dim_h" :> None)] }

NextBuild ==
    \/ \E d \in DeclsBuild : PrepareCell(d.cell_type, d.name, d.kwargs)
    \/ \E n \in {<<>>, <<"a">>, <<"b">>} : Build(n)
    \/ \E n \in NamesCells : RemoveCell(n)

SpecBuild == Init /\ [][NextBuild]_vars

\* The slices select_params cuts for the keys it is given: None, the key
\* of a component, the key of a template bound to None, an unknown key.
DeclsSelect ==
    { d \in Decls :
        \/ d.name = "a" /\ d.cell_type = "RecurrentUnit" /\ "dim_h" \in DOMAIN d.kwargs
        \/ d.name = "b" /\ d.cell_type = "RNNInitializer" }

KeysSelect == ComponentKeys \cup {"aux_net"}

NextSelect ==
    \/ \E d \in DeclsSelect : PrepareCell(d.cell_type, d.name, d.kwargs)
    \/ Build(<<>>)
    \/ \E n \in NamesCells : RemoveCell(n)
    \/ \E n \in NamesCells, k \in KeysSelect : SelectParams(n, k)

SpecSelect == Init /\ [][NextSelect]_vars

\* Assignments into the registry: values that are not cells and the cells
\* already built, under a free name and under a name in use.
NonCells == {None, IntV(3), StrV("a")}

NamesRegistry == {<<"a">>, <<"b">>}

NextRegistry ==
    \/ \E d \in DeclsSelect : PrepareCell(d.cell_type, d.name, d.kwargs)
    \/ Build(<<>>)
    \/ \E n \in NamesRegistry : RemoveCell(n)
    \/ \E n \in NamesRegistry, v \in NonCells \cup {cells.map[c] : c \in DOMAIN cells.map} :
          SetItem(n, v)

SpecRegistry == Init /\ [][NextRegistry]_vars

\* Builds of records that hold placeholders: the one add_link back-fills
\* for a, and a link of another cell handed to prepare_cell for b, which
\* has no node for b.
DeclsResolve == { d \in Decls : d.name = "a" /\ d.cell_type = "MLP" }

LinksResolve ==
    { << <<DatasetName, "x">>, <<"a", "input">> >>,
      << <<DatasetName, "y">>, <<"a", "input">> >>,
      << <<"a", "output">>, <<DatasetName, "y">> >>,
      << <<DatasetName, "y">>, <<"b", "input">> >> }

NextResolve ==
    \/ RegisterDataset(DatasetName)
    \/ \E d \in DeclsResolve : PrepareCell(d.cell_type, d.name, d.kwargs)
    \/ \E i \in 1..Len(links), k \in {"dim_in", "dim_out"} :
          PrepareCell("MLP", "b", k :> LinkV(i))
    \/ PrepareCell("MLP", "b", "dim_out" :> IntV(4))
    \/ \E l \in LinksResolve : AddLink(l[1], l[2])
    \/ \E n \in {<<>>, <<"b">>} : Build(n)

SpecResolve == Init /\ [][NextResolve]_vars

\* prepare_cell with and without a requestor and a name, for a class the
\* manager knows and for one it does not.
TypesPrepare == {"RecurrentUnit", "Unknown"}

NextPrepare ==
    \/ \E ty \in TypesPrepare, rq \in {<<>>, <<"a">>}, n \in {"", "a"},
          kw \in {EmptyDict, "dim_h" :> IntV(3)} : PrepareCellFor(ty, rq, n, kw)
    \/ Build(<<>>)

SpecPrepare == Init /\ [][NextPrepare]_vars

\* Cells with a list-valued component group 'nets' of up to two elements,
\* between a component 'pre' and a component 'post' that are each absent
\* from the template, bound to None, or bound to a cell.  The handles are
\* numbered in get_params order.
LeafParams(n) == IF n = 1 THEN <<Array("W")>> ELSE <<Array("W"), Array("U")>>

\* a cell without components whose n parameters are the handles first..
LeafCell(name, first, n) ==
    [cls |-> "Cell", name |-> name,
     attrs |-> ("name" :> NameV(name)) @@ ("weight_noise" :> IntV(0)),
     params |-> LeafParams(n), n_params |-> n, n_component_params |-> 0,
     total_params |-> n, param_keys |-> ParamKeys(LeafParams(n)),
     handles |-> [i \in 1..n |-> Handle(first + i - 1)],
     component_keys |-> <<>>, components |-> EmptyDict, noise_keys |-> 0]

SidesGroups == {"absent", "none", "cell"}
SizesGroups == {<<>>, <<1>>, <<2>>, <<1, 1>>, <<1, 2>>, <<2, 1>>}

RECURSIVE SumSizes(_)
SumSizes(ns) == IF ns = <<>> THEN 0 ELSE Head(ns) + SumSizes(Tail(ns))

\* the owner 'a': one parameter of its own, then pre, nets, post
GroupOwner(pre, sizes, post) ==
    LET p == IF pre = "cell" THEN 1 ELSE 0
        g == SumSizes(sizes)
        q == IF post = "cell" THEN 2 ELSE 0
        Side(x, key, first, n) ==
            IF x = "absent" THEN EmptyDict
            ELSE IF x = "none" THEN key :> None
            ELSE key :> LeafCell(<<"a", key>>, first, n)
        Nets == [group |->
                  [i \in 1..Len(sizes) |->
                     LeafCell(<<"a", GroupKey("nets", i - 1)>>,
                              1 + p + SumSizes(SubSeq(sizes, 1, i - 1)), sizes[i])]]
    IN [cls |-> "Cell", name |-> <<"a">>,
        attrs |-> ("name" :> NameV(<<"a">>)) @@ ("weight_noise" :> IntV(0)),
        params |-> LeafParams(1), n_params |-> 1, n_component_params |-> p + g + q,
        total_params |-> 1 + p + g + q, param_keys |-> ParamKeys(LeafParams(1)),
        handles |-> <<Handle(0)>>,
        component_keys |-> (IF pre = "absent" THEN <<>> ELSE <<"pre">>) \o <<"nets">>
                           \o (IF post = "absent" THEN <<>> ELSE <<"post">>),
        components |-> Side(pre, "pre", 1, 1) @@ ("nets" :> Nets)
                       @@ Side(post, "post", 1 + p + g, 2),
        noise_keys |-> 0]

InitGroups ==
    /\ instance = 1
    /\ cells \in { ODSet(EmptyOD, <<"a">>, GroupOwner(pre, sizes, post)) :
                     pre \in SidesGroups, sizes \in SizesGroups, post \in SidesGroups }
    /\ cell_args = EmptyOD
    /\ links = <<>>
    /\ tparams = EmptyDict
    /\ datasets = EmptyDict
    /\ classes = AllClasses
    /\ dataset_classes = {"FMRI_IID", "FMRI"}
    /\ RNN_components = RNNDeclared
    /\ last = [op |-> "import", err |-> Ok]

KeysGroups == {"", "pre", "post", "nets", "nets_0", "nets_1", "nets_2"}

NextGroups == \E k \in KeysGroups : SelectParamsLists(<<"a">>, k)

SpecGroups == InitGroups /\ [][NextGroups]_vars

\* Templates handed to set_components: each names the cell type
\* RecurrentUnit, marks some names as passed and may set dim_h itself.
TemplatePassed(passed, args) ==
    [args |-> ("cell_type" :> StrV("RecurrentUnit")) @@ args,
     passed |-> passed, required |-> EmptyDict]

TemplatesPassed ==
    { TemplatePassed(<<"weight_noise">>, "dim_h" :> IntV(4)),
      TemplatePassed(<<"dim_h">>, EmptyDict),
      TemplatePassed(<<>>, "dim_h" :> IntV(4)) }

ComponentsPassed ==
    { <<[key |-> "left", v |-> l], [key |-> "right", v |-> r]>> :
        l \in TemplatesPassed \cup {None}, r \in TemplatesPassed \cup {None} }

KwargsPassed == { EmptyDict, "dim_h" :> IntV(3), "weight_noise" :> IntV(1) }

NextPassed ==
    \/ \E c \in ComponentsPassed, kw \in KwargsPassed : SetComponents(<<"a">>, c, kw)
    \/ Reset

SpecPassed == Init /\ [][NextPassed]_vars

\* Constructions of RNN.  The iteration order of the dict RNN._components
\* is the interpreter's: any order of the three keys, the same for every
\* construction.
OrdersRNN ==
    { [i \in 1..3 |-> RNNDeclared[q[i]]] :
        q \in { f \in [1..3 -> 1..3] : \A i, j \in 1..3 : f[i] = f[j] => i = j } }

InitTemplates ==
    /\ instance = 1
    /\ cells = EmptyOD
    /\ cell_args = EmptyOD
    /\ links = <<>>
    /\ tparams = EmptyDict
    /\ datasets = EmptyDict
    /\ classes = AllClasses
    /\ dataset_classes = {"FMRI_IID", "FMRI"}
    /\ RNN_components \in OrdersRNN
    /\ last = [op |-> "import", err |-> Ok]

KwargsRNN ==
    { EmptyDict, "dim_h" :> IntV(3), ("dim_h" :> IntV(3)) @@ ("dim_in" :> IntV(3)) }

NextTemplates ==
    \/ \E rt \in {"RecurrentUnit", "GRU"}, kw \in KwargsRNN :
          ConstructRNN(<<"r">>, rt, kw)
    \/ Reset

SpecTemplates == InitTemplates /\ [][NextTemplates]_vars

\* Every call that writes cells or cell_args, failing calls included:
\* a declaration that cannot be built (a without dim_h), match_args on a
\* pending and on a built name, a link between cells, removal of absent,
\* pending and built names, registration of cells and of other values.
DeclsSubset ==
    { d \in Decls :
        \/ d.name = "a" /\ d.cell_type = "RecurrentUnit" /\ "weight_noise" \notin DOMAIN d.kwargs
        \/ d.name = "b" /\ d.cell_type = "RNNInitializer" /\ "initialization" \notin DOMAIN d.kwargs }

NextSubset ==
    \/ Reset
    \/ \E d \in DeclsSubset : PrepareCell(d.cell_type, d.name, d.kwargs)
    \/ MatchArgs("a", "dim_h" :> IntV(4))
    \/ AddLink(<<"a", "output">>, <<"b", "input">>)
    \/ \E n \in {<<>>, <<"a">>} : Build(n)
    \/ \E n \in {<<"a">>, <<"b">>, <<"c">>} : RemoveCell(n)
    \/ \E n \in {<<"a">>, <<"c">>}, v \in {None} \cup {cells.map[c] : c \in DOMAIN cells.map} :
          SetItem(n, v)

SpecSubset == Init /\ [][NextSubset]_vars

\* Removal of absent, pending and built names, of an owner and of its
\* sub-component, while tparams, links and datasets hold entries.
DeclsRemove ==
    { d \in Decls :
        \/ d.name = "a" /\ d.cell_type = "MLP" /\ "dim_in" \in DOMAIN d.kwargs
        \/ d.name = "b" /\ d.cell_type = "RNNInitializer"
                        /\ "initialization" \notin DOMAIN d.kwargs }

NextRemove ==
    \/ RegisterDataset(DatasetName)
    \/ \E d \in DeclsRemove : PrepareCell(d.cell_type, d.name, d.kwargs)
    \/ AddLink(<<DatasetName, "y">>, <<"a", "input">>)
    \/ Build(<<>>)
    \/ \E n \in {<<"a">>, <<"b">>, <<"b", "initializer">>, <<"c">>} : RemoveCell(n)

SpecRemove == Init /\ [][NextRemove]_vars

\* Links between two cells: either endpoint declares its dimension, declares
\* it null, or leaves it out; a may hold the placeholder of a dataset link.
DeclsChain ==
    { [name |-> n, cell_type |-> "RecurrentUnit", kwargs |-> k] :
        n \in {"a", "b"},
        k \in {EmptyDict, ("dim_h" :> None), ("dim_h" :> IntV(3)), ("dim_h" :> IntV(4))} }
    \cup { [name |-> "a", cell_type |-> "MLP", kwargs |-> ("dim_out" :> IntV(3))] }

LinksChain ==
    { << <<DatasetName, "x">>, <<"a", "input">> >>,
      << <<"a", "input">>, <<"b", "input">> >>,
      << <<"a", "output">>, <<"b", "input">> >>,
      << <<"b", "output">>, <<"a", "input">> >> }

NextChain ==
    \/ RegisterDataset(DatasetName)
    \/ \E d \in DeclsChain : PrepareCell(d.cell_type, d.name, d.kwargs)
    \/ \E l \in LinksChain : AddLink(l[1], l[2])
    \/ Build(<<>>)

SpecChain == Init /\ [][NextChain]_vars

-----------------------------------------------------------------------------
(* Built cells                                                             *)

Built == { cells.map[n] : n \in DOMAIN cells.map }

\* the non-null direct sub-components of c, in component_keys order
SubCells(c) ==
    LET ks == SelectSeq(c.component_keys, LAMBDA k : c.components[k] # None)
    IN [i \in 1..Len(ks) |-> c.components[ks[i]]]

\* the built cells and the cells they own (one level of ownership is all the
\* modelled classes reach: an RNNInitializer owns an MLP)
BuiltDeep == Built \cup UNION { Range(SubCells(c)) : c \in Built }

RECURSIVE SumTotal(_)
SumTotal(cs) == IF cs = <<>> THEN 0 ELSE Head(cs).total_params + SumTotal(Tail(cs))

\* 1 for an array, the length for a list of arrays
OwnCount(c) ==
    LET Size(i) == IF c.params[i].len >= 0 THEN c.params[i].len ELSE 1
        RECURSIVE Upto(_)
        Upto(i) == IF i = 0 THEN 0 ELSE Size(i) + Upto(i - 1)
    IN Upto(Len(c.params))

-----------------------------------------------------------------------------
(* C1: for every built cell, total_params = n_params + the sum of          *)
(* total_params over its non-null direct sub-components, n_params counting *)
(* an array as 1 and a list of arrays by its length; and no later call     *)
(* changes the total_params of a cell that stays registered.               *)

C1_TotalInv ==
    \A c \in BuiltDeep :
        /\ c.n_params = OwnCount(c)
        /\ c.total_params = c.n_params + SumTotal(SubCells(c))

-----------------------------------------------------------------------------
(* C2: until the next reset, a name present in tparams keeps its handle,   *)
(* and every built cell's parameter is the handle stored under its         *)
(* fully-qualified name.                                                   *)

C2_BoundInv ==
    \A c \in BuiltDeep : \A i \in 1..Len(c.param_keys) :
        /\ _p(c.name, c.param_keys[i]) \in DOMAIN tparams
        /\ c.handles[i] = tparams[_p(c.name, c.param_keys[i])]

C2_SharedHandles ==
    /\ []C2_BoundInv
    /\ [][last'.op \notin {"reset", "Manager"} =>
            \A n \in DOMAIN tparams :
               n \in DOMAIN tparams' /\ tparams'[n] = tparams[n]]_vars

\* a was constructed before b (its handle is the first one made), removed,
\* and constructed again after b: the second construction bound the handle
\* of the first
C2_Witness ==
    /\ cells.keys = << <<"b", "initializer">>, <<"b">>, <<"a">> >>
    /\ cells.map[<<"a">>].cls = "RecurrentUnit"
    /\ cells.map[<<"a">>].handles = <<Handle(0)>>
    /\ <<"a", "W">> \in DOMAIN tparams /\ tparams[<<"a", "W">>] = Handle(0)

-----------------------------------------------------------------------------
(* C3: select_params(None, *get_params(c)) is the first n_params entries   *)
(* of the flattened list and holds exactly c's own handles, each once (in  *)
(* param_keys order unless the class orders its own list itself); it       *)
(* shares no entry with the slice of any component key.                    *)

NoDuplicates(s) == \A i, j \in 1..Len(s) : s[i] = s[j] => i = j

OrdersOwnList(c) == c.cls = "CNN2D"

-----------------------------------------------------------------------------
(* C4: for a non-null sub-component key k, select_params(k,                *)
(* *get_params(c)) is get_params() of that sub-component: the contiguous   *)
(* slice at offset n_params + the totals of the non-null components before *)
(* k, of length total_params of k; the slices are disjoint and, with the   *)
(* own slice, make up the whole list.                                      *)

\* the flattened list cut at the offsets C4 gives
RECURSIVE ExpectedSlices(_, _, _)
ExpectedSlices(ps, subs, offset) ==
    IF subs = <<>> THEN <<>>
    ELSE <<SubSeq(ps, offset + 1, offset + Head(subs).total_params)>>
         \o ExpectedSlices(ps, Tail(subs), offset + Head(subs).total_params)

RECURSIVE Flatten(_)
Flatten(ss) == IF ss = <<>> THEN <<>> ELSE Head(ss) \o Flatten(Tail(ss))

-----------------------------------------------------------------------------
(* C5: match_args on a built cell: a key already in the record with an     *)
(* equal value succeeds and changes nothing; with a different value it     *)
(* fails with Argument-Mismatch; a key not in the record fails with        *)
(* Unknown-Argument.                                                       *)

\* the call the step makes is match_args(name, **kwargs) on a built cell
MatchOnBuilt ==
    /\ last'.op = "match_args"
    /\ ODHas(cells, last'.name) /\ ODHas(cell_args, last'.name)

C5_MatchBuilt ==
    [][MatchOnBuilt =>
         LET rec == cell_args.map[last'.name]
             kw == last'.kwargs
             present == \A k \in DOMAIN kw : k \in DOMAIN rec
             differs == \E k \in DOMAIN kw \cap DOMAIN rec :
                            rec[k] # None /\ rec[k] # kw[k]
         IN /\ present /\ ~differs /\ kw # EmptyDict =>
                  last'.err = Ok /\ cell_args' = cell_args /\ cells' = cells
            /\ present /\ differs => last'.err = ErrArgumentMismatch
            /\ ~present /\ ~differs => last'.err = ErrUnknownArgument]_vars

\* a was built from dim_h = 3; match_args('a', dim_h=3) raised KeyError and
\* left a's record empty
C5_Witness ==
    /\ last.op = "match_args" /\ last.name = <<"a">>
    /\ last.kwargs = ("dim_h" :> IntV(3))
    /\ ODHas(cells, <<"a">>) /\ cells.map[<<"a">>].cls = "RecurrentUnit"
    /\ cells.map[<<"a">>].attrs["dim_h"] = IntV(3)
    /\ last.err = ErrUnknownArgument
    /\ ODHas(cell_args, <<"a">>) /\ cell_args.map[<<"a">>] = EmptyDict

-----------------------------------------------------------------------------
(* C6: for a name that is not built, declarations accumulate: after a      *)
(* match_args (or prepare_cell) whose keywords do not conflict with the    *)
(* record, the record holds every earlier entry, Link placeholders         *)
(* included, and every keyword of the call.                                *)

\* the call the step makes declares arguments for a pending, declared name
MatchOnPending ==
    /\ last'.op \in {"match_args", "prepare_cell"}
    /\ ~ODHas(cells, last'.name) /\ ODHas(cell_args, last'.name)
    /\ \A k \in DOMAIN last'.kwargs \cap DOMAIN cell_args.map[last'.name] :
          cell_args.map[last'.name][k] = last'.kwargs[k]

C6_Accumulate ==
    [][MatchOnPending =>
         /\ last'.err = Ok
         /\ ODHas(cell_args', last'.name)
         /\ cell_args'.map[last'.name]
               = DictUpdate(cell_args.map[last'.name], last'.kwargs)]_vars

\* a Link with a node for a is in manager.links, a is still pending, and
\* after match_args('a', ...) its record holds no placeholder
C6_Witness ==
    /\ last.op = "match_args" /\ last.name = <<"a">> /\ last.err = Ok
    /\ ~ODHas(cells, <<"a">>) /\ ODHas(cell_args, <<"a">>)
    /\ Len(links) = 1 /\ <<"a">> \in DOMAIN links[1].nodes
    /\ \A k \in DOMAIN cell_args.map[<<"a">>] : ~IsLink(cell_args.map[<<"a">>][k])
    /\ "cell_type" \notin DOMAIN cell_args.map[<<"a">>]

-----------------------------------------------------------------------------
(* Links, as the calls see them                                            *)

\* the reference names a field of a registered dataset
DatasetRef(ref) ==
    /\ <<ref[1]>> \in DOMAIN datasets
    /\ ref[Len(ref)] \in DOMAIN datasets[<<ref[1]>>].dims

\* the reference names a port of a declared cell that is not built
PendingRef(ref) ==
    /\ ODHas(cell_args, Front(ref)) /\ ~ODHas(cells, Front(ref))
    /\ "cell_type" \in DOMAIN cell_args.map[Front(ref)]
    /\ cell_args.map[Front(ref)]["cell_type"].str \in classes
    /\ ref[Len(ref)]
          \in DOMAIN ClassMeta(cell_args.map[Front(ref)]["cell_type"].str).dim_map

\* the dimension argument the port of the reference maps to
DimArg(ref) ==
    ClassMeta(cell_args.map[Front(ref)]["cell_type"].str).dim_map[ref[Len(ref)]]

\* the value declared for that argument, None if there is none
Declared(ref) == DictGet(cell_args.map[Front(ref)], DimArg(ref))

\* the step is a successful build that constructs the pending cell n, whose
\* record holds the placeholder of link i under the key d
BuildsFromLink(n, d, i) ==
    /\ last'.op = "build" /\ last'.err = Ok
    /\ ODHas(cell_args, n) /\ ~ODHas(cells, n) /\ ODHas(cells', n)
    /\ d \in DOMAIN cell_args.map[n] /\ cell_args.map[n][d] = LinkV(i)

BuiltWith(n, d, v) ==
    /\ cells'.map[n].attrs[d] = v
    /\ cell_args'.map[n][d] = v
    /\ cells'.map[n].total_params
          = OwnCount(cells'.map[n]) + SumTotal(SubCells(cells'.map[n]))

-----------------------------------------------------------------------------
(* C7: with a registered dataset D, dims[field] = v, and a pending cell m  *)
(* whose class maps port p to the undeclared dimension argument d:         *)
(* add_link('D.field', 'm.p') back-fills a Link of value v under d, and    *)
(* the build that follows constructs m with d = v, leaves cell_args[m][d]  *)
(* = v, and m's total_params is as computed.                               *)

C7_DatasetLink ==
    [][/\ ( /\ last'.op = "add_link"
            /\ DatasetRef(last'.f) /\ PendingRef(last'.t)
            /\ Declared(last'.t) = None )
          => /\ last'.err = Ok
             /\ IsLink(cell_args'.map[Front(last'.t)][DimArg(last'.t)])
             /\ links'[cell_args'.map[Front(last'.t)][DimArg(last'.t)].link].value
                   = datasets[<<last'.f[1]>>].dims[last'.f[2]]
       /\ \A n \in DOMAIN cell_args.map, i \in 1..Len(links) :
             \A d \in DOMAIN ClassMeta("MLP").dim_map \cup {"dim_h"} :
                BuildsFromLink(n, d, i) => BuiltWith(n, d, links[i].value)]_vars

\* add_link('D.x', 'a.input') on a pending RecurrentUnit with no dim_h raised
\* AttributeError
C7_Witness ==
    /\ last.op = "add_link" /\ last.f = <<DatasetName, "x">>
    /\ last.t = <<"a", "input">>
    /\ last.err = ErrNoDistribution
    /\ <<DatasetName>> \in DOMAIN datasets
    /\ ODHas(cell_args, <<"a">>) /\ ~ODHas(cells, <<"a">>)
    /\ cell_args.map[<<"a">>] = ("cell_type" :> StrV("RecurrentUnit"))

-----------------------------------------------------------------------------
(* C8: with two pending cells a and b, a's output dimension argument       *)
(* declared as v and b's input dimension argument undeclared:              *)
(* add_link('a.output', 'b.input') succeeds with a Link of value v         *)
(* back-filled into b's record, and the build that follows constructs b    *)
(* with its input dimension argument equal to v.                           *)

PlainValue(v) == v # None /\ ~IsLink(v)

C8_CellLink ==
    [][/\ ( /\ last'.op = "add_link"
            /\ PendingRef(last'.f) /\ PendingRef(last'.t)
            /\ Front(last'.f) # Front(last'.t)
            /\ PlainValue(Declared(last'.f)) /\ Declared(last'.t) = None )
          => /\ last'.err = Ok
             /\ IsLink(cell_args'.map[Front(last'.t)][DimArg(last'.t)])
             /\ links'[Len(links')].value = Declared(last'.f)
       /\ \A n \in DOMAIN cell_args.map, i \in 1..Len(links) :
             ( /\ BuildsFromLink(n, "dim_h", i)
               /\ \A e \in DOMAIN links[i].nodes : ~IsDataset(M, e) )
             => cells'.map[n].attrs["dim_h"] = links[i].value]_vars

\* a declares dim_h = 3, b declares none;
\* add_link('a.output', 'b.input') raised TypeError
C8_Witness ==
    /\ last.op = "add_link" /\ last.f = <<"a", "output">>
    /\ last.t = <<"b", "input">>
    /\ last.err = ErrMissingKeyArg
    /\ ODHas(cell_args, <<"a">>) /\ ODHas(cell_args, <<"b">>)
    /\ DictGet(cell_args.map[<<"a">>], "dim_h") = IntV(3)
    /\ DictGet(cell_args.map[<<"a">>], "cell_type") = StrV("RecurrentUnit")
    /\ "dim_h" \notin DOMAIN cell_args.map[<<"b">>]
    /\ links = <<>>

-----------------------------------------------------------------------------
(* C9: reset() leaves cells, cell_args, links, tparams and datasets empty  *)
(* and the class tables and the singleton as they were; get_manager()      *)
(* returns the singleton.                                                  *)

C9_Reset ==
    /\ [][last'.op = "reset" =>
            /\ cells' = EmptyOD /\ cell_args' = EmptyOD /\ links' = <<>>
            /\ tparams' = EmptyDict /\ datasets' = EmptyDict
            /\ classes' = classes /\ dataset_classes' = dataset_classes
            /\ instance' = instance]_vars
    /\ [](last.op = "get_manager" => last.ret = instance)
    /\ [][last'.op = "get_manager" => instance' = instance]_vars

\* reset() was called when none of the five tables was empty
C9_Witness ==
    /\ last.op = "reset"
    /\ last.had = [cells |-> TRUE, cell_args |-> TRUE, links |-> TRUE,
                   tparams |-> TRUE, datasets |-> TRUE]
    /\ cells = EmptyOD /\ tparams = EmptyDict /\ classes = AllClasses

-----------------------------------------------------------------------------
(* C10: add_link with two references whose owners are registered datasets  *)
(* fails with Invalid-Link and leaves manager.links and every argument     *)
(* record as they were.                                                    *)

C10_TwoDatasets ==
    [][( /\ last'.op = "add_link"
         /\ <<last'.f[1]>> \in DOMAIN datasets
         /\ <<last'.t[1]>> \in DOMAIN datasets )
       => /\ last'.err = ErrInvalidLink
          /\ links' = links
          /\ cell_args' = cell_args]_vars

\* add_link('D.x', 'D.y') was refused while a link and an argument record
\* with its placeholder were held
C10_Witness ==
    /\ last.op = "add_link" /\ last.err = ErrInvalidLink
    /\ last.f = <<DatasetName, "x">> /\ last.t = <<DatasetName, "y">>
    /\ Len(links) = 1
    /\ ODHas(cell_args, <<"a">>)
    /\ \E k \in DOMAIN cell_args.map[<<"a">>] : IsLink(cell_args.map[<<"a">>][k])

-----------------------------------------------------------------------------
(* C11: for every node name of a link and each of the node's keys (its     *)
(* dimension key, its distribution key, the alias cell_type), query on a   *)
(* link whose value is still unset fails with Link-Not-Ready and returns   *)
(* no value.                                                               *)

\* the keys the node `name` of the link answers to
NodeKeys(link, name) ==
    LET node == link.nodes[name]
    IN {node.dim_key, "cell_type"}
       \cup (IF node.dist_key = None THEN {}
             ELSE {SubSeq(node.dist_key.str, 2, Len(node.dist_key.str))})

QueryOfNode ==
    /\ last.op = "query"
    /\ last.link \in 1..Len(links)
    /\ last.name \in DOMAIN links[last.link].nodes
    /\ last.key \in NodeKeys(links[last.link], last.name)

-----------------------------------------------------------------------------
(* C12: on a resolved link query is idempotent and read-only: repeated     *)
(* calls with the same arguments return the identical value (link.value    *)
(* for the node's dimension key, link.distribution for its distribution    *)
(* key or cell_type), and no call changes the link or a manager table.     *)

C12_Answer ==
    (QueryOfNode /\ links[last.link].value # None)
        => /\ last.err = Ok
           /\ last.value = IF last.key = links[last.link].nodes[last.name].dim_key
                            THEN links[last.link].value
                            ELSE links[last.link].distribution

-----------------------------------------------------------------------------
(* C13: add_link is first-writer-wins on the argument record of every node *)
(* cell: a dimension-key argument that already holds a non-null value (a   *)
(* declared value or the placeholder of an earlier link) is left as it is, *)
(* and so is the distribution-key argument; no other argument of a node    *)
(* cell and no record of another cell changes.                             *)

\* the argument names add_link may write for a node
BackFillKeys(node) ==
    {node.dim_key}
    \cup (IF node.dist_key = None THEN {}
          ELSE IF SubSeq(node.dist_key.str, 1, 1) = "&"
          THEN {SubSeq(node.dist_key.str, 2, Len(node.dist_key.str))}
          ELSE {"cell_type"})

FirstWriterWins(old, new, node) ==
    /\ \A k \in (DOMAIN old \cup DOMAIN new) \ BackFillKeys(node) :
          k \in DOMAIN old /\ k \in DOMAIN new /\ new[k] = old[k]
    /\ \A k \in BackFillKeys(node) :
          DictGet(old, k) # None => (k \in DOMAIN new /\ new[k] = old[k])

C13_FirstWriter ==
    [][last'.op = "add_link" =>
         /\ cell_args'.keys = cell_args.keys
         /\ \A n \in DOMAIN cell_args.map :
              IF last'.err = Ok /\ n \in DOMAIN links'[Len(links')].nodes
              THEN FirstWriterWins(cell_args.map[n], cell_args'.map[n],
                                   links'[Len(links')].nodes[n])
              ELSE cell_args'.map[n] = cell_args.map[n]]_vars

\* a second link reached the port of a cell whose dimension argument held
\* the placeholder of the first; the placeholder and the declared dim_out
\* are still there
C13_Witness ==
    /\ last.op = "add_link" /\ last.err = Ok
    /\ Len(links) = 2
    /\ <<"a">> \in DOMAIN links[1].nodes \cap DOMAIN links[2].nodes
    /\ links[1].nodes[<<"a">>].dim_key = links[2].nodes[<<"a">>].dim_key
    /\ links[1].value # links[2].value
    /\ ODHas(cell_args, <<"a">>)
    /\ DictGet(cell_args.map[<<"a">>], "dim_in") = LinkV(1)
    /\ DictGet(cell_args.map[<<"a">>], "dim_out") = IntV(3)
    /\ ODHas(cell_args, <<"b">>)

-----------------------------------------------------------------------------
(* C14: a build() without a name that returns successfully leaves every    *)
(* name of cell_args in cells; the cells that were pending are constructed *)
(* in the order of their registration in cell_args, and the cells built    *)
(* before the call are not constructed again.                              *)

IndexOf(s, x) == CHOOSE i \in 1..Len(s) : s[i] = x

BuildAllReturned == last'.op = "build" /\ last'.name = <<>> /\ last'.err = Ok

C14_BuildAll ==
    [][BuildAllReturned =>
         /\ \A n \in Range(cell_args'.keys) : ODHas(cells', n)
         \* the cells built before: the same objects at the same places
         /\ Len(cells.keys) <= Len(cells'.keys)
         /\ SubSeq(cells'.keys, 1, Len(cells.keys)) = cells.keys
         /\ \A n \in Range(cells.keys) :
               /\ cells'.map[n] = cells.map[n]
               /\ ODHas(cell_args, n) => cell_args'.map[n] = cell_args.map[n]
         \* the pending ones: registered in cells in the order of cell_args
         /\ \A p, q \in Range(Pending(M)) :
               IndexOf(cell_args.keys, p) < IndexOf(cell_args.keys, q)
                   => IndexOf(cells'.keys, p) < IndexOf(cells'.keys, q)]_vars

\* build() found b pending before a, and a cell built earlier; all of them
\* are in cells, b and its component before a
C14_Witness ==
    /\ last.op = "build" /\ last.name = <<>> /\ last.err = Ok
    /\ last.pending = << <<"b">>, <<"a">> >>
    /\ cells.keys = << <<"b", "initializer">>, <<"b">>, <<"a">> >>
    /\ cell_args.keys = << <<"b", "initializer">>, <<"b">>, <<"a">> >>

-----------------------------------------------------------------------------
(* C15: build(name) adds to cells at most the cell `name` and the cells    *)
(* that are its recursively owned sub-components; every other pending cell *)
(* stays unbuilt, whether or not `name` was built when build was called.   *)

\* n is `owner` or one of the cells owner recursively owns
OwnedBy(owner, n) ==
    Len(owner) <= Len(n) /\ SubSeq(n, 1, Len(owner)) = owner

C15_BuildNamed ==
    [][(last'.op = "build" /\ last'.name # <<>>) =>
         \A n \in Range(cells'.keys) \ Range(cells.keys) :
             OwnedBy(last'.name, n)]_vars

\* build('a') was called with a already built and b pending: b is built
C15_Witness ==
    /\ last.op = "build" /\ last.name = <<"a">> /\ last.err = Ok
    /\ <<"a">> \notin Range(last.pending)
    /\ <<"b">> \in Range(last.pending)
    /\ ODHas(cells, <<"a">>)
    /\ ODHas(cells, <<"b">>)

-----------------------------------------------------------------------------
(* C16: a cell whose construction fails at any step is not in cells after  *)
(* the failure: every name in cells denotes a cell whose whole constructor *)
(* ran, the parameter counts and set_tparams included.                     *)

\* c is what Cell.__init__ leaves when it has run to its end under name n
Constructed(n, c) ==
    /\ c.name = n
    /\ Components(c.cls, c.attrs).err = Ok
    /\ Len(c.component_keys) = Len(Components(c.cls, c.attrs).components)
    /\ \A k \in Range(c.component_keys) : k \in DOMAIN c.components
    /\ c.params = init_params(c.cls, c.attrs)
    /\ c.n_params = OwnCount(c)
    /\ c.total_params = c.n_params + SumTotal(SubCells(c))
    /\ c.param_keys = ParamKeys(c.params)
    /\ Len(c.handles) = Len(c.param_keys)
    /\ \A i \in 1..Len(c.param_keys) :
          /\ _p(n, c.param_keys[i]) \in DOMAIN tparams
          /\ c.handles[i] = tparams[_p(n, c.param_keys[i])]

C16_AllConstructed == \A n \in Range(cells.keys) : Constructed(n, cells.map[n])

-----------------------------------------------------------------------------
(* C17: the argument record of a built cell is frozen: for every name in   *)
(* cells no call of match_args, prepare_cell or add_link, successful or    *)
(* not, changes cell_args[name].                                           *)

C17_Frozen ==
    [][last'.op \in {"match_args", "prepare_cell", "add_link"} =>
         \A n \in Range(cells.keys) :
             ODHas(cell_args, n) =>
                 /\ ODHas(cell_args', n)
                 /\ cell_args'.map[n] = cell_args.map[n]]_vars

\* prepare_cell declared the built cell a again with the value it was built
\* from: the call raised KeyError and a's record is empty
C17_Witness ==
    /\ last.op = "prepare_cell" /\ last.name = <<"a">>
    /\ last.err = ErrUnknownArgument
    /\ ODHas(cells, <<"a">>) /\ cells.map[<<"a">>].cls = "RecurrentUnit"
    /\ "dim_h" \in DOMAIN last.kwargs
    /\ last.kwargs["dim_h"] = cells.map[<<"a">>].attrs["dim_h"]
    /\ last.kwargs["cell_type"] = StrV("RecurrentUnit")
    /\ ODHas(cell_args, <<"a">>) /\ cell_args.map[<<"a">>] = EmptyDict

-----------------------------------------------------------------------------
(* C18: a name in cells stays in cells under every operation except        *)
(* remove_cell(name) and reset(); after remove_cell(name) the name is in   *)
(* neither cells nor cell_args, and it can be declared again with          *)
(* prepare_cell and built again without an Argument-Mismatch or            *)
(* Unknown-Argument error.                                                 *)

\* the step builds the name that the step before declared
BuildsDeclared ==
    /\ last.op = "prepare_cell" /\ last.err = Ok
    /\ last'.op = "build" /\ last'.name = last.name
    /\ ~ODHas(cells, last.name)

C18_Lifecycle ==
    /\ [][\A n \in Range(cells.keys) :
             ODHas(cells', n)
             \/ last'.op \in {"reset", "Manager"}
             \/ (last'.op = "remove_cell" /\ last'.name = n)]_vars
    /\ [][(last'.op = "remove_cell" /\ last'.err = Ok) =>
             /\ ~ODHas(cells', last'.name)
             /\ ~ODHas(cell_args', last'.name)]_vars
    /\ [][BuildsDeclared =>
             last'.err \notin {ErrArgumentMismatch, ErrUnknownArgument}]_vars

\* b was built with its initializer and removed; declared again, it is not
\* built: the build raised KeyError for the initializer left in cells
C18_Witness ==
    /\ last.op = "build" /\ last.name = <<"b">>
    /\ last.err = ErrUnknownArgument
    /\ last.pending = << <<"b">> >>
    /\ ~ODHas(cells, <<"b">>)
    /\ ODHas(cells, <<"b", "initializer">>)
    /\ ODHas(cell_args, <<"b">>)
    /\ DictGet(cell_args.map[<<"b">>], "cell_type") = StrV("RNNInitializer")

-----------------------------------------------------------------------------
(* C19: connected cells have matching dimensionality: for every link in    *)
(* manager.links and every node cell of the link that is built, the value  *)
(* the cell was constructed with for the node's dimension argument equals  *)
(* link.value.                                                             *)

C19_MatchingDims ==
    \A i \in 1..Len(links) : \A n \in DOMAIN links[i].nodes :
        ODHas(cells, n) =>
            /\ links[i].nodes[n].dim_key \in DOMAIN cells.map[n].attrs
            /\ cells.map[n].attrs[links[i].nodes[n].dim_key] = links[i].value

\* a was declared with dim_in = 4 and linked to the dataset field x of
\* dimension 3; the build constructed it with dim_in = 4
C19_Witness ==
    /\ last.op = "build" /\ last.err = Ok
    /\ last.pending = << <<"a">> >>
    /\ Len(links) = 1
    /\ links[1].name = << <<DatasetName, "x">>, <<"a", "input">> >>
    /\ links[1].value = IntV(3)
    /\ <<"a">> \in DOMAIN links[1].nodes
    /\ links[1].nodes[<<"a">>].dim_key = "dim_in"
    /\ ODHas(cells, <<"a">>)
    /\ DictGet(cells.map[<<"a">>].attrs, "dim_in") = IntV(4)

-----------------------------------------------------------------------------
(* C20: if a name of C._required is absent from the argument record of a   *)
(* cell or maps to null, factory, and with it the build of that cell,      *)
(* fails with Missing-Required-Argument before an instance exists: nothing *)
(* is added to cells or tparams.                                           *)

\* the record of the declared cell n lacks a required argument of its class
RequiredMissing(m, n) ==
    /\ ODHas(m.cell_args, n)
    /\ "cell_type" \in DOMAIN m.cell_args.map[n]
    /\ ResolvableClass(m, m.cell_args.map[n]["cell_type"].str)
    /\ \E req \in Range(ClassMeta(m.cell_args.map[n]["cell_type"].str).required) :
          DictGet(m.cell_args.map[n], req) = None

\* the cell the build of this step starts with
FirstBuilt ==
    IF last'.name # <<>> /\ ~ODHas(cells, last'.name) THEN last'.name
    ELSE Head(last'.pending)

C20_MissingRequired ==
    /\ [][( /\ last'.op = "build"
            /\ (last'.name = <<>> \/ ODHas(cells, last'.name)) => last'.pending # <<>>
            /\ RequiredMissing(M, FirstBuilt) )
          => /\ last'.err = ErrMissingRequired
             /\ cells' = cells
             /\ tparams' = tparams]_vars
    /\ [][last'.op = "build" =>
            \A n \in Range(Pending(M)) :
                RequiredMissing(M, n) =>
                    /\ ~ODHas(cells', n)
                    /\ \A t \in DOMAIN tparams' \ DOMAIN tparams : ~OwnedBy(n, t)]_vars

\* a was declared with dim_h = None while b was built: build('a') raised
\* TypeError and a is not in cells
C20_Witness ==
    /\ last.op = "build" /\ last.name = <<"a">>
    /\ last.err = ErrMissingRequired
    /\ ODHas(cell_args, <<"a">>)
    /\ "dim_h" \in DOMAIN cell_args.map[<<"a">>]
    /\ cell_args.map[<<"a">>]["dim_h"] = None
    /\ ~ODHas(cells, <<"a">>)
    /\ ODHas(cells, <<"b">>)
    /\ tparams # EmptyDict

-----------------------------------------------------------------------------
(* C21: select_params with a non-null key that matches no component of the *)
(* cell, the key of a component template bound to None included, fails     *)
(* with Component-Not-Found and returns no slice.                          *)

\* the cell has no component under the key
NoComponent(c, key) ==
    \/ key \notin Range(c.component_keys)
    \/ (key \in DOMAIN c.components /\ c.components[key] = None)

C21_ComponentNotFound ==
    ( /\ last.op = "select_params"
      /\ last.key # ""
      /\ ODHas(cells, last.name)
      /\ NoComponent(cells.map[last.name], last.key) )
    => last.err = ErrComponentNotFound

\* b was built with initialization None: its component key initializer is
\* declared and bound to None, and select_params('initializer') raised
C21_Witness ==
    /\ last.op = "select_params" /\ last.name = <<"b">>
    /\ last.key = "initializer"
    /\ ODHas(cells, <<"b">>)
    /\ cells.map[<<"b">>].component_keys = <<"initializer">>
    /\ cells.map[<<"b">>].components["initializer"] = None
    /\ last.err = ErrComponentNotFound

-----------------------------------------------------------------------------
(* C22: if the owner of either reference given to add_link is neither a    *)
(* registered dataset nor a name with an argument record, the construction *)
(* of the link fails with Reference-Not-Found, no link is appended to      *)
(* manager.links and no argument record changes.                           *)

\* the owner of the reference is neither a dataset nor a declared cell
UnknownOwner(ref) ==
    /\ <<ref[1]>> \notin DOMAIN datasets
    /\ ~ODHas(cell_args, Front(ref))

\* the reference names a dataset or a record whose class resolves
ResolvedOwner(ref) ==
    \/ <<ref[1]>> \in DOMAIN datasets
    \/ /\ ODHas(cell_args, Front(ref))
       /\ "cell_type" \in DOMAIN cell_args.map[Front(ref)]
       /\ cell_args.map[Front(ref)]["cell_type"].str \in classes

\* the KeyErrors get_args raises for a reference it cannot resolve
ReferenceErrors == {ErrReferenceNotFound, ErrNoCellType, ErrUnknownCellType}

-----------------------------------------------------------------------------
(* C23: for a link between two cells, an endpoint whose dimension argument *)
(* is absent, null or an unresolved placeholder is skipped without failing *)
(* the link; if neither endpoint produces a value the construction fails   *)
(* with Unresolvable-Link, no link is appended and no record is            *)
(* back-filled.                                                            *)

\* the endpoint's dimension argument yields a value (cell.py 230-235)
Produces(ref) ==
    \/ PlainValue(Declared(ref))
    \/ /\ IsLink(Declared(ref))
       /\ Declared(ref).link \in 1..Len(links)
       /\ links[Declared(ref).link].value # None

\* the TypeErrors Link.__init__ raises on the path of two cells
LinkTypeErrors == {ErrUnresolvableLink, ErrMissingKeyArg}

CellLinkCall(f, t) ==
    /\ PendingRef(f) /\ PendingRef(t)
    /\ ResolvedOwner(f) /\ ResolvedOwner(t)
    /\ Front(f) # Front(t)

C23_SkippedEndpoint ==
    [][(last'.op = "add_link" /\ CellLinkCall(last'.f, last'.t))
       => IF Produces(last'.f) \/ Produces(last'.t)
          THEN /\ last'.err = Ok
               /\ Len(links') = Len(links) + 1
          ELSE /\ last'.err \in LinkTypeErrors
               /\ links' = links
               /\ cell_args' = cell_args]_vars

\* b declares dim_h = 3 and a declares none: the source endpoint is the one
\* to skip, and add_link('a.output', 'b.input') raised TypeError
C23_Witness ==
    /\ last.op = "add_link" /\ last.f = <<"a", "output">>
    /\ last.t = <<"b", "input">>
    /\ last.err = ErrMissingKeyArg
    /\ links = <<>>
    /\ ODHas(cell_args, <<"a">>) /\ ODHas(cell_args, <<"b">>)
    /\ cell_args.map[<<"a">>] = ("cell_type" :> StrV("RecurrentUnit"))
    /\ DictGet(cell_args.map[<<"b">>], "cell_type") = StrV("RecurrentUnit")
    /\ DictGet(cell_args.map[<<"b">>], "dim_h") = IntV(3)

-----------------------------------------------------------------------------
(* C24: assigning a value that is not a Cell into the registry             *)
(* (manager[name] = value) fails with Type-Mismatch and leaves             *)
(* manager.cells and manager.cell_args unchanged, also when name is        *)
(* already registered.                                                     *)

C24_TypeMismatch ==
    [][(last'.op = "setitem" /\ ~IsCell(last'.value))
       => /\ last'.err = ErrNotACell
          /\ cells' = cells
          /\ cell_args' = cell_args]_vars

\* manager['a'] = 3 with a built: TypeError, a is still the cell it was
C24_Witness ==
    /\ last.op = "setitem" /\ last.err = ErrNotACell
    /\ last.name = <<"a">> /\ last.value = IntV(3) /\ last.had
    /\ ODHas(cells, <<"a">>) /\ IsCell(cells.map[<<"a">>])
    /\ ODHas(cell_args, <<"a">>)

-----------------------------------------------------------------------------
(* C25: registering a constructed cell under a name that is already in     *)
(* manager.cells succeeds (a warning only); afterwards manager.cells[name] *)
(* is the new cell and the number of entries of cells is unchanged.        *)

C25_Overwrite ==
    [][(last'.op = "setitem" /\ IsCell(last'.value) /\ ODHas(cells, last'.name))
       => /\ last'.err = Ok
          /\ ODHas(cells', last'.name)
          /\ cells'.map[last'.name] = last'.value
          /\ Len(cells'.keys) = Len(cells.keys)]_vars

\* manager['a'] = manager['b'] with both built: a is now bound to the
\* RNNInitializer and cells still has the entries it had
C25_Witness ==
    /\ last.op = "setitem" /\ last.err = Ok
    /\ last.name = <<"a">> /\ last.had
    /\ IsCell(last.value) /\ last.value.cls = "RNNInitializer"
    /\ ODHas(cells, <<"a">>) /\ cells.map[<<"a">>] = last.value
    /\ ODHas(cells, <<"b">>) /\ cells.map[<<"b">>] = last.value

-----------------------------------------------------------------------------
(* C26: when exactly one endpoint of a link is a dataset D with field k,   *)
(* the link's value is datasets[D]['dims'][k] and its distribution is      *)
(* datasets[D]['distributions'][k], whatever the cell endpoint declares    *)
(* for its dimension or distribution argument.                             *)

IsDatasetRef(ref) == <<ref[1]>> \in DOMAIN datasets

\* the dataset reference of a call with exactly one dataset endpoint
DatasetEnd(f, t) == IF IsDatasetRef(f) THEN f ELSE t

C26_DatasetWins ==
    [][( /\ last'.op = "add_link" /\ last'.err = Ok
         /\ IsDatasetRef(last'.f) # IsDatasetRef(last'.t) )
       => /\ Len(links') = Len(links) + 1
          /\ links'[Len(links')].value
                = datasets[DatasetEnd(last'.f, last'.t)[1]].dims[DatasetEnd(last'.f, last'.t)[2]]
          /\ links'[Len(links')].distribution
                = datasets[DatasetEnd(last'.f, last'.t)[1]].distributions[DatasetEnd(last'.f, last'.t)[2]]]_vars

\* a declares dim_in = 4 and add_link('D.x', 'a.input') made a link of
\* value 3; a's record still says 4
C26_Witness ==
    /\ last.op = "add_link" /\ last.err = Ok
    /\ last.f = <<DatasetName, "x">> /\ last.t = <<"a", "input">>
    /\ links # <<>>
    /\ links[Len(links)].name = <<last.f, last.t>>
    /\ links[Len(links)].value = IntV(3)
    /\ links[Len(links)].distribution = StrV("gaussian")
    /\ ODHas(cell_args, <<"a">>)
    /\ DictGet(cell_args.map[<<"a">>], "dim_in") = IntV(4)

-----------------------------------------------------------------------------
(* C27: for every link in manager.links the keys of link.nodes are exactly *)
(* the names of its endpoints that are not datasets: a dataset name is     *)
(* never a node, a link between two cells has a node for each distinct     *)
(* endpoint cell, and each node's dim_key is its class's _dim_map entry    *)
(* for the linked port.                                                    *)

CellEnds(l) == { r \in {l.name[1], l.name[2]} : ~IsDatasetRef(r) }

NodesOfCellEnds(l) ==
    /\ DOMAIN l.nodes = { Front(r) : r \in CellEnds(l) }
    /\ \A r \in CellEnds(l) :
          /\ l.nodes[Front(r)].link_key = r[Len(r)]
          /\ l.nodes[Front(r)].dim_key
                = ClassMeta(l.nodes[Front(r)].C).dim_map[r[Len(r)]]

\* lines 111-114 on two cell endpoints of a class whose Node can be made
PortsMLP == DOMAIN ClassMeta("MLP").dim_map

TwoCellNodes ==
    \A p \in PortsMLP, q \in PortsMLP :
        LET Made(ns) ==
                /\ ns.err = Ok
                /\ DOMAIN ns.nodes = {<<"a">>, <<"b">>}
                /\ ns.nodes[<<"a">>].dim_key = ClassMeta("MLP").dim_map[p]
                /\ ns.nodes[<<"b">>].dim_key = ClassMeta("MLP").dim_map[q]
        IN Made(link_nodes([name |-> <<"a">>, key |-> p, C |-> "MLP"],
                           [name |-> <<"b">>, key |-> q, C |-> "MLP"], <<>>))

C27_NodesAreCells ==
    /\ \A i \in 1..Len(links) : NodesOfCellEnds(links[i])
    /\ TwoCellNodes

\* the links D.x->a.input and a.output->D.y: each has the one node a, on the
\* port it was linked by
C27_Witness ==
    /\ Len(links) = 2
    /\ links[1].name = << <<DatasetName, "x">>, <<"a", "input">> >>
    /\ links[2].name = << <<"a", "output">>, <<DatasetName, "y">> >>
    /\ DOMAIN links[1].nodes = {<<"a">>} /\ DOMAIN links[2].nodes = {<<"a">>}
    /\ links[1].nodes[<<"a">>].dim_key = "dim_in"
    /\ links[2].nodes[<<"a">>].dim_key = "dim_out"

-----------------------------------------------------------------------------
(* C28: for a link between two cells add_link(f, t) the endpoints are      *)
(* tried target first, then source, and the last that succeeds wins: if    *)
(* both produce a dimension value the link's value is the source's, if     *)
(* only one does it is that one's.                                         *)

\* the value the endpoint produces (cell.py 230-235)
Produced(ref) ==
    IF PlainValue(Declared(ref)) THEN Declared(ref)
    ELSE links[Declared(ref).link].value

C28_SourceWins ==
    [][( /\ last'.op = "add_link" /\ CellLinkCall(last'.f, last'.t)
         /\ (Produces(last'.f) \/ Produces(last'.t)) )
       => /\ last'.err = Ok
          /\ links' # <<>>
          /\ links'[Len(links')].name = <<last'.f, last'.t>>
          /\ links'[Len(links')].value
                = IF Produces(last'.f) THEN Produced(last'.f) ELSE Produced(last'.t)]_vars

\* a declares dim_h = 3 and b declares dim_h = 4: both endpoints produce a
\* value and add_link('a.output', 'b.input') raised TypeError
C28_Witness ==
    /\ last.op = "add_link" /\ last.f = <<"a", "output">>
    /\ last.t = <<"b", "input">>
    /\ last.err = ErrMissingKeyArg
    /\ links = <<>>
    /\ ODHas(cell_args, <<"a">>) /\ ODHas(cell_args, <<"b">>)
    /\ DictGet(cell_args.map[<<"a">>], "dim_h") = IntV(3)
    /\ DictGet(cell_args.map[<<"b">>], "dim_h") = IntV(4)

-----------------------------------------------------------------------------
(* C29: link values propagate along chains: when the source endpoint's     *)
(* dimension argument holds the placeholder of a resolved link and the     *)
(* target declares none, the new link's value is that link's value; after  *)
(* add_link('D.x', 'a.input') and add_link('a.input', 'b.input') the       *)
(* second link's value is datasets[D]['dims']['x'].                        *)

C29_ChainValue ==
    [][( /\ last'.op = "add_link" /\ CellLinkCall(last'.f, last'.t)
         /\ IsLink(Declared(last'.f)) /\ Produces(last'.f)
         /\ Declared(last'.t) = None )
       => /\ last'.err = Ok
          /\ Len(links') = Len(links) + 1
          /\ links'[Len(links')].value = links[Declared(last'.f).link].value]_vars

\* a.input holds the placeholder of the link from D.x (value 3), b declares
\* no dimension, and add_link('a.input', 'b.input') raised TypeError
C29_Witness ==
    /\ last.op = "add_link" /\ last.f = <<"a", "input">>
    /\ last.t = <<"b", "input">>
    /\ last.err = ErrMissingKeyArg
    /\ Len(links) = 1
    /\ links[1].name = << <<DatasetName, "x">>, <<"a", "input">> >>
    /\ links[1].value = DatasetDims["x"]
    /\ ODHas(cell_args, <<"a">>) /\ ODHas(cell_args, <<"b">>)
    /\ DictGet(cell_args.map[<<"a">>], "dim_in") = LinkV(1)
    /\ DictGet(cell_args.map[<<"b">>], "dim_h") = None

-----------------------------------------------------------------------------
(* C30: in every reachable state every link in manager.links has a         *)
(* non-null value, and between two reset() calls manager.links only grows: *)
(* each successful add_link appends exactly one link and no operation      *)
(* removes or reorders the links already there.                            *)

IsPrefix(s, t) == Len(s) <= Len(t) /\ \A i \in 1..Len(s) : s[i] = t[i]

LinksResolved == \A i \in 1..Len(links) : links[i].value # None

\* steps of one manager object (Manager() makes another, whose list is new)
\* other than reset()
LinksGrow ==
    (instance' = instance /\ last'.op # "reset")
    => /\ IsPrefix(links, links')
       /\ IF last'.op = "add_link" /\ last'.err = Ok
          THEN Len(links') = Len(links) + 1
          ELSE links' = links

C30_LinksOnlyGrow == []LinksResolved /\ [][LinksGrow]_vars

\* a second successful add_link: the first link is where it was
C30_Witness ==
    /\ last.op = "add_link" /\ last.err = Ok
    /\ Len(links) = 2
    /\ links[1].value # None /\ links[2].value # None
    /\ links[2].name = <<last.f, last.t>>

-----------------------------------------------------------------------------
(* C31: build_cell(name) replaces every Link placeholder of                *)
(* cell_args[name] by the value link.query(name, key) returns before the   *)
(* factory is called: no constructor receives a Link as an argument value, *)
(* and if a query fails the build fails without constructing the cell.     *)

NoLinkArgument(c) == \A k \in DOMAIN c.attrs : ~IsLink(c.attrs[k])

\* the placeholder keys of the record of n
Placeholders(n) == { k \in DOMAIN cell_args.map[n] : IsLink(cell_args.map[n][k]) }

\* what the link under key k of n's record answers to n
Answered(n, k) == query(links[cell_args.map[n][k].link], n, k)

Dereferenced(n) ==
    \A k \in Placeholders(n) :
        IF ODHas(cells', n)
        THEN /\ Answered(n, k).err = Ok
             /\ cells'.map[n].attrs[k] = Answered(n, k).value
        ELSE TRUE

FailedQuery(n) ==
    (\E k \in Placeholders(n) : Answered(n, k).err # Ok)
    => /\ ~ODHas(cells', n)
       /\ last'.name = n => last'.err # Ok

C31_Dereference ==
    /\ [](\A n \in DOMAIN cells.map : NoLinkArgument(cells.map[n]))
    /\ [][last'.op = "build"
           => \A n \in Range(Pending(M)) : Dereferenced(n) /\ FailedQuery(n)]_vars

\* a was built from the placeholder of D.x -> a.input; b holds the link of
\* a, which has no node b: build('b') failed and b is not constructed
C31_Witness ==
    /\ last.op = "build" /\ last.name = <<"b">> /\ last.err = ErrNoNode
    /\ ODHas(cells, <<"a">>) /\ cells.map[<<"a">>].attrs["dim_in"] = DatasetDims["x"]
    /\ ~ODHas(cells, <<"b">>) /\ ODHas(cell_args, <<"b">>)
    /\ DictGet(cell_args.map[<<"b">>], "dim_in") = LinkV(1)
    /\ links # <<>> /\ DOMAIN links[1].nodes = {<<"a">>}

-----------------------------------------------------------------------------
(* C32: cells are built bottom-up: when an owner is registered in          *)
(* manager.cells, every non-null sub-component of its template is already  *)
(* registered under '<owner>.<key>' and bound as the owner's attribute, so *)
(* in the insertion order of cells each sub-component precedes its owner.  *)

\* the keys of c bound to a component
BoundKeys(c) ==
    { k \in Range(c.component_keys) : k \in DOMAIN c.components /\ c.components[k] # None }

\* n is the key the owner is registered under, its attribute name the
\* name its sub-components are prefixed with
SubsBefore(od, n) ==
    \A k \in BoundKeys(od.map[n]) :
        /\ ODHas(od, od.map[n].name \o <<k>>)
        /\ od.map[od.map[n].name \o <<k>>] = od.map[n].components[k]
        /\ IndexOf(od.keys, od.map[n].name \o <<k>>) < IndexOf(od.keys, n)

C32_BottomUp ==
    [][\A n \in DOMAIN cells'.map :
          (~ODHas(cells, n) /\ IsCell(cells'.map[n])) => SubsBefore(cells', n)]_vars

\* b, an RNNInitializer, was built with its MLP: 'b.initializer' is the
\* first entry of cells and b the second
C32_Witness ==
    /\ last.op = "build" /\ last.err = Ok
    /\ cells.keys = << <<"b", "initializer">>, <<"b">> >>
    /\ cells.map[<<"b">>].cls = "RNNInitializer"
    /\ BoundKeys(cells.map[<<"b">>]) = {"initializer"}
    /\ cells.map[<<"b", "initializer">>].cls = "MLP"

-----------------------------------------------------------------------------
(* C33: prepare_cell registers intent under '<type>_cell' when neither     *)
(* owner nor name is given, '<owner>.<type>' when only an owner is given,  *)
(* '<owner>.<name>' when both are given and name itself when only a name   *)
(* is given; it creates or updates exactly that entry of cell_args (with   *)
(* the key cell_type) and never adds anything to cells or tparams.         *)

IntentName(ty, rq, n) ==
    CASE rq = <<>> /\ n = "" -> <<ty \o "_cell">>
      [] rq # <<>> /\ n = "" -> rq \o <<ty>>
      [] rq # <<>> /\ n # "" -> rq \o <<n>>
      [] rq = <<>> /\ n # "" -> <<n>>

\* every entry but that of nm is what it was
OnlyEntry(nm) ==
    /\ DOMAIN cell_args'.map \ {nm} = DOMAIN cell_args.map \ {nm}
    /\ \A x \in DOMAIN cell_args.map \ {nm} : cell_args'.map[x] = cell_args.map[x]

Intent(nm) ==
    /\ OnlyEntry(nm)
    /\ cells' = cells /\ tparams' = tparams
    /\ last'.err = Ok
          => /\ ODHas(cell_args', nm)
             /\ \A k \in DOMAIN last'.kwargs :
                   DictGet(cell_args'.map[nm], k) = last'.kwargs[k]
             /\ DictGet(cell_args'.map[nm], "cell_type") = StrV(last'.cell_type)
    /\ last'.err = ErrUnknownCellType => cell_args' = cell_args

C33_Intent ==
    [][last'.op = "prepare_cell"
       => Intent(IntentName(last'.cell_type, last'.requestor, last'.given))]_vars

\* with a built, prepare_cell('RecurrentUnit', requestor=a, name='a',
\* dim_h=3) made the entry 'a.a'
C33_Witness ==
    /\ last.op = "prepare_cell" /\ last.err = Ok
    /\ last.requestor = <<"a">> /\ last.given = "a"
    /\ ODHas(cells, <<"a">>) /\ ~ODHas(cells, <<"a", "a">>)
    /\ ODHas(cell_args, <<"a", "a">>)
    /\ cell_args.map[<<"a", "a">>]
         = ("cell_type" :> StrV("RecurrentUnit")) @@ ("dim_h" :> IntV(3))

-----------------------------------------------------------------------------
(* C34: for a cell with a list-valued component group, select_params of    *)
(* '<name>_<index>' on get_params of the cell returns exactly the slice of *)
(* the index-th element of the group (that element's get_params()), for    *)
(* every valid index and whatever components are declared before or after  *)
(* the group.                                                              *)

\* the index a key of the form '<k>_<i>' names in the group k of c, or -1
IndexIn(c, k, key) ==
    IF \E i \in 0..(Len(c.components[k].group) - 1) : GroupKey(k, i) = key
    THEN CHOOSE i \in 0..(Len(c.components[k].group) - 1) : GroupKey(k, i) = key
    ELSE -1

ElementSlice(c, k, key) == get_params_lists(c.components[k].group[IndexIn(c, k, key) + 1])

C34_GroupSlice ==
    ( /\ last.op = "select_params" /\ ODHas(cells, last.name)
      /\ "nets" \in DOMAIN cells.map[last.name].components
      /\ IsGroup(cells.map[last.name].components["nets"])
      /\ IndexIn(cells.map[last.name], "nets", last.key) >= 0 )
    => /\ last.err = Ok
       /\ last.ret = ElementSlice(cells.map[last.name], "nets", last.key)

\* pre and post are cells and nets has two elements: select_params of
\* 'nets_0' returned an empty slice instead of the handle of the element
C34_Witness ==
    /\ last.op = "select_params" /\ last.key = "nets_0" /\ last.err = Ok
    /\ ODHas(cells, <<"a">>)
    /\ cells.map[<<"a">>].component_keys = <<"pre", "nets", "post">>
    /\ cells.map[<<"a">>].components["pre"] # None
    /\ cells.map[<<"a">>].components["post"] # None
    /\ IsGroup(cells.map[<<"a">>].components["nets"])
    /\ Len(cells.map[<<"a">>].components["nets"].group) = 2
    /\ "ret" \in DOMAIN last
    /\ last.ret # get_params_lists(cells.map[<<"a">>].components["nets"].group[1])

-----------------------------------------------------------------------------
(* C35: with weight noise off, get_params lists the cell's own handles and *)
(* then get_params of every non-null sub-component in component_keys       *)
(* order; the list has total_params entries and every own handle is the    *)
(* one stored in tparams under '<name>.<param_key>'.                       *)

NoiseOff(c) == ~Truthy(c.attrs["weight_noise"])

\* get_params of the non-null sub-components, one after the other
SubParams(c) == Flatten([i \in 1..Len(SubCells(c)) |-> get_params(SubCells(c)[i]).ret])

\* the handle bound for param_keys[i] is the one tparams holds under its name
OwnAreShared(c) ==
    \A i \in 1..Len(c.param_keys) :
        /\ _p(c.name, c.param_keys[i]) \in DOMAIN tparams
        /\ c.handles[i] = tparams[_p(c.name, c.param_keys[i])]

\* weights[0], biases[0], weights[1], biases[1], ...: position j (from 1)
PairKey(j) ==
    (IF j % 2 = 1 THEN "weights[" ELSE "biases[") \o ToString((j - 1) \div 2) \o "]"

\* the flattened list of a group owner is its handles in the order own,
\* pre, the elements of the group in list order, post
GroupsFlattened ==
    \A pre \in SidesGroups, post \in SidesGroups, sizes \in SizesGroups :
        LET Numbered(ps, total) ==
                /\ Len(ps) = total
                /\ \A i \in 1..total : ps[i] = Handle(i - 1)
        IN Numbered(get_params_lists(GroupOwner(pre, sizes, post)),
                    GroupOwner(pre, sizes, post).total_params)

\* C35 as stated: the own handles come in param_keys order, for every class
C35_KeyOrder ==
    \A c \in Built :
        NoiseOff(c) =>
            /\ get_params(c).err = Ok
            /\ get_params(c).ret = c.handles \o SubParams(c)
            /\ Len(get_params(c).ret) = c.total_params
            /\ OwnAreShared(c)

\* C35 (amended): as stated for the classes that use Cell.get_params; a
\* CNN2D, which overrides get_params, lists the same own handles pairwise
\* (weights[i], biases[i]), not in param_keys order
C35_OwnThenComponents ==
    /\ GroupsFlattened
    /\ \A c \in Built :
          NoiseOff(c) =>
            LET Shape(ps, n) ==
                    /\ ps.err = Ok
                    /\ Len(ps.ret) = c.total_params
                    /\ SubSeq(ps.ret, n + 1, Len(ps.ret)) = SubParams(c)
                    /\ IF c.cls = "CNN2D"
                       THEN \A j \in 1..n :
                               /\ PairKey(j) \in Range(c.param_keys)
                               /\ ps.ret[j] = tparams[_p(c.name, PairKey(j))]
                       ELSE SubSeq(ps.ret, 1, n) = c.handles
            IN /\ Shape(get_params(c), Len(c.handles))
               /\ OwnAreShared(c)

\* get_params has run on a built CNN2D with two layers while an owner with
\* a parameter-holding sub-component is built as well
C35_Witness ==
    /\ last.op = "get_params" /\ last.err = Ok /\ last.name = <<"a">>
    /\ ODHas(cells, <<"a">>) /\ cells.map[<<"a">>].cls = "CNN2D"
    /\ cells.map[<<"a">>].n_params = 4
    /\ NoiseOff(cells.map[<<"a">>])
    /\ ODHas(cells, <<"b">>)
    /\ cells.map[<<"b">>].components["initializer"] # None
    /\ cells.map[<<"b">>].total_params = 4

-----------------------------------------------------------------------------
(* C36: every sub-component template that marks a name p as passed gets p  *)
(* with the owner's value in its prepared record whenever the owner's      *)
(* keyword arguments contain p, also when two templates mark the same p.   *)

\* the record prepared for the template t of the owner has p, as given
Forwarded(owner, t, p, kwargs) ==
    /\ ODHas(last.records, _p(owner, t.key))
    /\ p \in DOMAIN last.records.map[_p(owner, t.key)]
    /\ last.records.map[_p(owner, t.key)][p] = kwargs[p]

\* the templates before position i whose passed list holds p once the
\* class's _args are added to it
MarkedBefore(comps, i, p) ==
    { j \in 1..(i - 1) :
        /\ comps[j].v # None
        /\ p \in Range(comps[j].v.passed)
                 \cup Range(ClassMeta(comps[j].v.args["cell_type"].str).args) }

\* C36: after the first loop of set_components, the record of every
\* template marking p holds the owner's value of p
C36_PassedForwarded ==
    (last.op = "set_components" /\ last.prepared) =>
        \A i \in 1..Len(last.components) :
            last.components[i].v # None =>
                \A p \in Range(last.components[i].v.passed) \cap DOMAIN last.kwargs :
                    Forwarded(last.name, last.components[i], p, last.kwargs)

\* what the loop does: the first template marking p gets the owner's value;
\* a later one keeps what its own template says about p
C36_FirstMarkerOnly ==
    (last.op = "set_components" /\ last.prepared) =>
        \A i \in 1..Len(last.components) :
            last.components[i].v # None =>
                \A p \in Range(last.components[i].v.passed) \cap DOMAIN last.kwargs :
                    IF MarkedBefore(last.components, i, p) = {}
                    THEN Forwarded(last.name, last.components[i], p, last.kwargs)
                    ELSE LET rec == last.records.map[_p(last.name, last.components[i].key)]
                             own == last.components[i].v.args
                         IN IF p \in DOMAIN own THEN rec[p] = own[p]
                            ELSE p \notin DOMAIN rec

\* two templates mark weight_noise, the owner is given weight_noise, every
\* sub-component was built, and the second one's record has no weight_noise
C36_Witness ==
    /\ last.op = "set_components" /\ last.prepared /\ last.err = Ok
    /\ "weight_noise" \in DOMAIN last.kwargs
    /\ \A i \in 1..2 :
          /\ last.components[i].v # None
          /\ "weight_noise" \in Range(last.components[i].v.passed)
    /\ ODHas(cells, <<"a", "left">>) /\ ODHas(cells, <<"a", "right">>)
    /\ ODHas(last.records, <<"a", "right">>)
    /\ "weight_noise" \notin DOMAIN last.records.map[<<"a", "right">>]
    /\ cells.map[<<"a", "left">>].attrs["weight_noise"] = IntV(1)
    /\ cells.map[<<"a", "right">>].attrs["weight_noise"] = IntV(0)

-----------------------------------------------------------------------------
(* C37: constructing cell instances never changes a class-level template.  *)

\* C37: no step changes RNN._components, the '_passed' lists included
C37_StaticTemplates == [][RNN_components' = RNN_components]_vars

\* the part that holds: a construction changes nothing of a template but
\* its '_passed' list, which keeps what it had and gains names at its end
C37_OnlyPassedGrows ==
    [][/\ Len(RNN_components') = Len(RNN_components)
       /\ \A i \in 1..Len(RNN_components) :
             /\ RNN_components'[i].key = RNN_components[i].key
             /\ RNN_components'[i].v.args = RNN_components[i].v.args
             /\ RNN_components'[i].v.required = RNN_components[i].v.required
             /\ IsPrefix(RNN_components[i].v.passed, RNN_components'[i].v.passed)]_vars

\* a second RNN has been constructed and the '_passed' list of the RU
\* template is no longer the declared one
C37_Witness ==
    /\ last.op = "RNN" /\ last.recurrence_type = "RecurrentUnit"
    /\ last.err = ErrNoMatchDims
    /\ \E i \in 1..Len(RNN_components) :
          /\ RNN_components[i].key = "RU"
          /\ RNN_components[i].v.passed = <<"weight_noise", "dim_h", "dim_h", "dim_h">>

-----------------------------------------------------------------------------
(* C38: every name in cells has an entry in cell_args, whatever calls were *)
(* made and whether they failed.                                           *)

\* C38: the built cells are a subset of the declared cells
C38_BuiltAreDeclared == \A n \in DOMAIN cells.map : ODHas(cell_args, n)

\* a registration under a name never declared has gone through while a
\* built owner and its sub-component are registered and a is declared but
\* not built
C38_Witness ==
    /\ last.op = "setitem" /\ last.err = Ok /\ last.name = <<"c">>
    /\ ODHas(cells, <<"c">>) /\ ODHas(cell_args, <<"c">>)
    /\ ODHas(cells, <<"b">>) /\ ODHas(cells, <<"b", "initializer">>)
    /\ ODHas(cell_args, <<"a">>) /\ ~ODHas(cells, <<"a">>)

-----------------------------------------------------------------------------
(* C39: remove_cell(key) of a built cell deletes cells[key] and            *)
(* cell_args[key] and nothing else; of a name not in cells it fails and    *)
(* changes nothing.                                                        *)

\* od2 is od1 without the entry n: the other entries and their order stay
Without(od1, od2, n) ==
    /\ od2.keys = SelectSeq(od1.keys, LAMBDA x : x # n)
    /\ DOMAIN od2.map = DOMAIN od1.map \ {n}
    /\ \A x \in DOMAIN od2.map : od2.map[x] = od1.map[x]

\* C39: a remove_cell step removes the two entries of a built name, and
\* fails without any change on a name that is not in cells
C39_RemoveExactly ==
    [][last'.op = "remove_cell" =>
          /\ tparams' = tparams /\ links' = links /\ datasets' = datasets
          /\ IF ODHas(cells, last'.name)
             THEN /\ last'.err = Ok
                  /\ Without(cells, cells', last'.name)
                  /\ Without(cell_args, cell_args', last'.name)
             ELSE /\ last'.err # Ok
                  /\ cells' = cells /\ cell_args' = cell_args]_vars

\* the owner b has been removed: its sub-component is still registered and
\* tparams, links and datasets hold entries
C39_Witness ==
    /\ last.op = "remove_cell" /\ last.err = Ok /\ last.name = <<"b">>
    /\ ~ODHas(cells, <<"b">>) /\ ~ODHas(cell_args, <<"b">>)
    /\ ODHas(cells, <<"b", "initializer">>) /\ ODHas(cell_args, <<"b", "initializer">>)
    /\ DOMAIN tparams # {} /\ links # <<>> /\ DOMAIN datasets # {}

====
